---- MODULE Spec2Model ----
(***************************************************************************)
(* Verification model of the UAV network simulator (meixiezichuan/uav-sim). *)
(*                                                                         *)
(* Spec : the MAC layer (CSMA/CA without RTS/CTS, and pure ALOHA) of two   *)
(*        drones that unicast one data packet each to the other, on the    *)
(*        simulator's single virtual timeline.  The timeline is the event  *)
(*        queue of the discrete-event kernel: events are served in order   *)
(*        of (time, priority, insertion), a process runs atomically from   *)
(*        one yield to the next.                                           *)
(* SpecLife : the way of a data packet through the drones' queues: the     *)
(*        transmit queue, the MAC with its retransmissions, the next hop's *)
(*        packet_reception, the waiting list and its periodic sweep.       *)
(***************************************************************************)
EXTENDS Integers, Sequences, FiniteSets, TLC

(***************************************************************************)
(* Time.  The model's time unit is the shortest delay of the code, the     *)
(* 0.01 us that pure ALOHA waits before it sends; a microsecond is US of   *)
(* them.                                                                   *)
(***************************************************************************)
\* pure_aloha.py:49, yield self.env.timeout(0.01)
AlohaDelay == 1
US == 100 * AlohaDelay

\* utils/config.py: a small configuration that keeps the code's relations
\* DIFS = SIFS + 2 * SLOT and ACK_TIMEOUT > SIFS + ACK airtime.
SLOT_DURATION == 2 * US
SIFS_DURATION == 1 * US
DIFS_DURATION == SIFS_DURATION + 2 * SLOT_DURATION
CW_MIN == 2
MAX_RETRANSMISSION_ATTEMPT == 2
SENSING_RANGE == 2
\* packet_length / BIT_RATE * 1e6 of a data packet and of an ACK packet
DataAirtime == 3 * US
AckAirtime == 1 * US
ACK_TIMEOUT == AckAirtime + SIFS_DURATION + 1 * US

\* csma_ca.py:226, the listener polls the channel every microsecond
ListenInterval == 1
\* pure_aloha.py:109, the unit of the random wait before a retransmission (us)
AlohaWaitUnit == 500

\* Bounds of the model: the second drone's packet enters the MAC at one of
\* the instants 0, ArrivalStep, ..., MaxArrival * ArrivalStep.
MaxArrival == 2
ArrivalStep == US \div 2
\* The receiver handles a frame at the end of its airtime, or RxLate
\* microseconds later (the receiver's inbox is polled).
RxLate == 2
RxDelays == {0, RxLate * US}
\* a hello is answered by nothing, so when it is handled changes nothing
RxDelaysOf(mode) == IF mode = 0 THEN RxDelays ELSE {0}

Drones == {0, 1}
RoutingProtocols == {"Dsdv", "Greedy", "Opar"}
\* the two-drone network: the next hop and destination of d's packet
Peer(d) == 1 - d

VARIABLES
    now,                      \* env.now
    evq,                      \* the kernel's event queue, in service order
    mac_protocol,             \* "CsmaCa" or "PureAloha"
    coords,                   \* drone.coords
    transmitting_queue,       \* drone.transmitting_queue (packet ids)
    transmission_mode,        \* pkd.transmission_mode: 0 unicast, 1 broadcast
    number_retransmission_attempt,  \* pkd.number_retransmission_attempt[d]
    first_attempt_time,       \* pkd.first_attempt_time (-1: not set)
    ttl,                      \* pkd current TTL
    transmitting_start_time,  \* pkd.transmitting_start_time
    mac_pc,                   \* where the mac_send process of d is suspended
    backoff, to_wait, start_time,   \* locals of mac_send
    mac_process_finish,       \* drone.mac_process_finish[key] (-1: no key)
    channel_states,           \* TRUE iff channel_states[d].users is not empty
    wait_ack_pc,              \* where the wait_ack process of attempt a is
    wait_ack_process_dict,    \* the attempt whose wait_ack the key names
    wait_ack_process_finish,  \* mac_protocol.wait_ack_process_finish[key2]
    mac_delay,                \* metrics.mac_delay
    datapacket_arrived,       \* metrics.datapacket_arrived
    tx_count,                 \* history: PHY unicasts of d's packet by d
    fat_writes,               \* history: assignments to first_attempt_time
    hold_since,               \* history: instant channel_states[d] was acquired
    dropped,                  \* history: packets dropped by wait_ack
    waiting_list,             \* drone.waiting_list
    routing_table,            \* routing_table.has_entry(dst) of each drone
    creation_time,            \* pkd.creation_time
    in_mac,                   \* the packet packet_coming handed to the MAC
    expired,                  \* history: packets discarded by check_waiting_list
    overflowed,               \* history: packets a full transmit queue refused
    routing_protocol,         \* the routing protocol of the drones
    sleep,                    \* drone.sleep
    dsdv_table,               \* DsdvRoutingTable.routing_table of every drone
    hello_inflight,           \* the last hello of every drone and who has yet to get it
    hello_sent,               \* history: periodic and triggered hellos of every drone
    deliver_time_dict,        \* metrics.deliver_time_dict, -1: no entry
    hop_cnt_dict,             \* metrics.hop_cnt_dict, -1: no entry
    neighbor_table,           \* GreedyNeighborTable.neighbor_table of every drone
    moved,                    \* history: a drone has changed its position
    in_range,                 \* OPAR: the links shorter than max_comm_range
    link_lifetime,            \* OPAR: link_lifetime_predictor of every link
    opar_cost,                \* Opar.cost
    best_obj,                 \* Opar.best_obj
    routing_path,             \* packet.routing_path
    next_hop_id,              \* packet.next_hop_id
    adjList,                  \* Graph.adjList of the graph get_mlst is called on
    mlst,                     \* the tree Graph.get_mlst returned
    leaves,                   \* the leaves Graph.get_mlst returned
    local_graph,              \* PrudentCaster.local_graph.adjList of every drone
    nodeTime,                 \* PrudentCaster.local_graph.nodeTime of every drone
    drone_path,               \* PrudentCaster.drone_path of every drone
    data_packet,              \* the PrudentDataPacket generated last
    mlst_calls,               \* history: the get_mlst calls of the last check_add_drone_packets
    broadcast_time,           \* broadcast_time of broadcast_packet_periodically: the next broadcast
    hello_count,              \* PrudentCaster.hello_count of every drone
    b_datapacket_arrived,     \* metrics.b_datapacket_arrived of every drone
    broadcasts,               \* history: the drone and the time of every broadcast_packet
    edge_refreshed,           \* history: the last add_edge of every edge of every local graph
    item_received,            \* history: the update_packets calls per drone and item
    item_rebroadcast,         \* history: the items every drone has put into a data packet
    run,                      \* run r: its generators, start positions and draws
    velocity,                 \* drone.velocity
    next_position,            \* the position of the tick before boundary_test
    next_velocity,            \* the velocity of the tick before boundary_test
    path_lists,               \* the list objects of the routing paths
    packet_objs,              \* the DataPacket objects: a routing_path names a list object
    relay_queue,              \* transmitting_queue of the OPAR drones, of packet objects
    relay_waiting,            \* waiting_list of the OPAR drones, of packet objects
    relay_mac,                \* the packet object a drone's MAC sends
    transmissions,            \* history: what each PHY unicast carried
    selections,               \* history: the calls of next_hop_selection at relays
    adj_lists,                \* Graph.adjList: the keys and the list of each key
    graph_call,               \* the method of Graph called last
    data_broadcast_type,      \* config.DATA_BROADCAST_TYPE: 0 flood, 1 gossip, 2 MLST pruning
    loop_pc,                  \* where next_hop_selection of the source is
    loop_path,                \* the local path of next_hop_selection
    loop_minimum,             \* the local minimum_link_lifetime of next_hop_selection
    loop_rounds,              \* the rounds of the while loop of next_hop_selection so far
    stray                     \* interrupts thrown into a transmitting mac_send

vars == <<now, evq, mac_protocol, coords, transmitting_queue, transmission_mode,
          number_retransmission_attempt, first_attempt_time, ttl,
          transmitting_start_time, mac_pc, backoff, to_wait, start_time,
          mac_process_finish, channel_states, wait_ack_pc,
          wait_ack_process_dict, wait_ack_process_finish, mac_delay,
          datapacket_arrived, tx_count, fat_writes, hold_since, dropped,
          waiting_list, routing_table, creation_time, in_mac, expired,
          overflowed, stray, routing_protocol, deliver_time_dict, hop_cnt_dict,
          sleep, dsdv_table, hello_inflight, hello_sent, neighbor_table, moved,
          in_range, link_lifetime, opar_cost, best_obj, routing_path, next_hop_id,
          adjList,
          mlst,
          leaves,
          local_graph,
          nodeTime,
          drone_path,
          data_packet,
          mlst_calls,
          broadcast_time,
          hello_count,
          b_datapacket_arrived,
          broadcasts,
          edge_refreshed,
          item_received,
          item_rebroadcast,
          run,
          velocity,
          next_position,
          next_velocity,
          path_lists,
          packet_objs,
          relay_queue,
          relay_waiting,
          relay_mac,
          transmissions,
          selections,
          adj_lists,
          graph_call,
          data_broadcast_type,
          loop_pc,
          loop_path,
          loop_minimum,
          loop_rounds>>

(***************************************************************************)
(* The event queue.  pr = 0 is the kernel's URGENT priority (process       *)
(* initialisation and interrupts), pr = 1 is NORMAL (timeouts, grants,     *)
(* process completion).  An event goes behind every event of the same time *)
(* and priority already queued.                                            *)
(***************************************************************************)
Ev(t, pr, k, d, a, f) == [t |-> t, pr |-> pr, k |-> k, d |-> d, a |-> a, f |-> f]

EvLE(e1, e2) == e1.t < e2.t \/ (e1.t = e2.t /\ e1.pr <= e2.pr)

Schedule(q, e) ==
    LET n == Cardinality({i \in 1..Len(q) : EvLE(q[i], e)})
    IN  SubSeq(q, 1, n) \o <<e>> \o SubSeq(q, n + 1, Len(q))

\* an interrupted process is unsubscribed from the event it waits for
Cancel(q, k, d) == SelectSeq(q, LAMBDA e : ~(e.k = k /\ e.d = d))

Fire(k) == evq # <<>> /\ Head(evq).k = k

\* the positions of the queue that hold an event of a kind in K for drone d
Pending(q, K, d) == {i \in 1..Len(q) : q[i].k \in K /\ q[i].d = d}


(***************************************************************************)
(* Pure functions of the code.                                             *)
(***************************************************************************)
\* util_function.euclidean_distance_3d, squared (the root is monotone, and
\* the only use of the distance is the comparison with SENSING_RANGE)
euclidean_distance_3d_sq(p1, p2) ==
    (p1[1] - p2[1]) * (p1[1] - p2[1]) + (p1[2] - p2[2]) * (p1[2] - p2[2])
    + (p1[3] - p2[3]) * (p1[3] - p2[3])

\* util_function.check_channel_availability: FALSE (busy) iff another drone
\* closer than SENSING_RANGE has a user on its channel_states resource
check_channel_availability(states, sender, crd) ==
    ~ \E node_id \in Drones :
         /\ states[node_id]
         /\ node_id # sender
         /\ euclidean_distance_3d_sq(crd[sender], crd[node_id])
                < SENSING_RANGE * SENSING_RANGE

\* a window that is already doubled on the first attempt
contention_window_Doubled(transmission_attempt) ==
    (CW_MIN + 1) * (2 ^ transmission_attempt) - 1

\* csma_ca.py:76
contention_window(transmission_attempt) ==
    (CW_MIN + 1) * (2 ^ (transmission_attempt - 1)) - 1

\* csma_ca.py:78, the values rng_mac.randint(0, contention_window - 1) draws
BackoffSlots(transmission_attempt) ==
    0 .. (contention_window(transmission_attempt) - 1)

\* a handler that restarts the countdown and never freezes the backoff
InterruptedCountdown_Restart(tw, bo, already_wait) == <<DIFS_DURATION + bo, bo>>

\* csma_ca.py:146-158, the except branch of mac_send: the pair
\* <<to_wait, backoff>> after an interrupt that came already_wait after the
\* countdown started
InterruptedCountdown(tw, bo, already_wait) ==
    LET remaining == tw - already_wait
    IN  IF remaining > bo
        THEN <<DIFS_DURATION + bo, bo>>
        ELSE <<DIFS_DURATION + remaining, remaining>>

\* a mac_send that releases the channel before the ACK is on air
AckProtection_SifsOnly == SIFS_DURATION

\* csma_ca.py:138, pure_aloha.py:85: how long mac_send goes on after the
\* airtime of a unicast frame
AckProtection == SIFS_DURATION + AckAirtime

\* a wait_ack that retransmits once more
MayRetransmit_Inclusive(attempts) == attempts <= MAX_RETRANSMISSION_ATTEMPT

\* csma_ca.py:173, pure_aloha.py:105
MayRetransmit(attempts) == attempts < MAX_RETRANSMISSION_ATTEMPT

\* a mac_send that stamps every attempt
IsFirstAttempt_Always(attempts) == TRUE

\* csma_ca.py:87, pure_aloha.py:51
IsFirstAttempt(attempts) == attempts = 1

\* a wait drawn from twice the range
AlohaWaitDraws_Doubled(transmission_attempt) == 0 .. (2 ^ (transmission_attempt + 1))

\* pure_aloha.py:108, the values rng_mac.randint(0, 2 ** attempt) draws
AlohaWaitDraws(transmission_attempt) == 0 .. (2 ^ transmission_attempt)

\* a process that ends without marking its key
MarkFinished_Forgets(flags, d) == flags

\* csma_ca.py:107 and 179, pure_aloha.py:60 and 118, greedy.py:190,
\* dsdv.py:209: process_finish[key] = 1
MarkFinished(flags, d) == [flags EXCEPT ![d] = 1]

\* a destination that accounts every reception, whatever the protocol
AccountsDelivery_Always(protocol, arrived, p) == TRUE

\* packet_reception at the destination: dsdv.py:141-146 writes the metrics
\* of every reception, greedy.py:122 and opar.py:240 only those of a packet
\* id that is not in datapacket_arrived yet
AccountsDelivery(protocol, arrived, p) == protocol = "Dsdv" \/ p \notin arrived

\* a PHY call made after the airtime timeout instead of before it
PhyCallTime_AfterAirtime(start) == start + DataAirtime

\* csma_ca.py:122-124 and 141-143, pure_aloha.py:73-75 and 88-90: the PHY
\* call is the statement before the airtime timeout, so the PHY gets the
\* frame at the time the transmission starts
PhyCallTime(start) == start

\* a with block that keeps the resource when it is left
ReleaseResource_Leaks(states, d) == states

\* csma_ca.py:110, the end of the block "with channel_states[id].request()":
\* the request is released or cancelled on every way out of the block
ReleaseResource(states, d) == [states EXCEPT ![d] = FALSE]

\* Drone.remove_from_queue
remove_from_queue(q, pid) == SelectSeq(q, LAMBDA x : x # pid)

\* process.triggered is False: the process has started and not ended
MacAlive(pc) == pc \in {"start", "wait_idle", "countdown", "request", "airtime", "hold"}
WaitAckAlive(pc) == pc \in {"ack_timeout", "random_wait", "resending"}

\* the state of the Greedy routing layer
greedyVars == <<neighbor_table, moved>>
\* no Greedy routing layer is installed
GreedyIdle ==
    /\ neighbor_table = <<>>
    /\ moved = FALSE

\* the state of OPAR at the source
oparVars == <<in_range, link_lifetime, opar_cost, best_obj, routing_path, next_hop_id>>
\* no OPAR is installed
OparIdle ==
    /\ in_range = {}
    /\ link_lifetime = <<>>
    /\ opar_cost = <<>>
    /\ best_obj = 0
    /\ routing_path = <<>>
    /\ next_hop_id = -1

\* the state of PrudentCaster
prudentVars == <<adjList, mlst, leaves, local_graph, nodeTime, drone_path, data_packet, mlst_calls, broadcast_time, hello_count, b_datapacket_arrived, broadcasts, edge_refreshed, item_received, item_rebroadcast>>
\* no PrudentCaster is installed
PrudentIdle ==
    /\ adjList = {}
    /\ mlst = <<>>
    /\ leaves = {}
    /\ local_graph = <<>>
    /\ nodeTime = <<>>
    /\ drone_path = <<>>
    /\ data_packet = <<>>
    /\ mlst_calls = {}
    /\ broadcast_time = <<>>
    /\ hello_count = <<>>
    /\ b_datapacket_arrived = <<>>
    /\ broadcasts = {}
    /\ edge_refreshed = <<>>
    /\ item_received = <<>>
    /\ item_rebroadcast = {}

\* two runs of the simulator with one seed
seedVars == <<run>>
SeedIdle ==
    /\ run = <<>>

\* the Gauss-Markov mobility model of one drone
gmVars == <<velocity, next_position, next_velocity>>
GmIdle ==
    /\ velocity = <<>>
    /\ next_position = <<>>
    /\ next_velocity = <<>>

\* the way of an OPAR data packet over its relays
relayVars == <<path_lists, packet_objs, relay_queue, relay_waiting, relay_mac, transmissions, selections>>
RelayIdle ==
    /\ path_lists = <<>>
    /\ packet_objs = <<>>
    /\ relay_queue = <<>>
    /\ relay_waiting = <<>>
    /\ relay_mac = <<>>
    /\ transmissions = {}
    /\ selections = {}

\* a Graph object as the code stores it: adjList, a dict of lists
listVars == <<adj_lists, graph_call>>
ListIdle ==
    /\ adj_lists = <<>>
    /\ graph_call = ""

\* config.DATA_BROADCAST_TYPE of PrudentCaster: 2, MLST pruning, where a specification does not choose it
modeVars == <<data_broadcast_type>>
ModeIdle ==
    /\ data_broadcast_type = 2

\* the while loop of Opar.next_hop_selection at the source, step by step
loopVars == <<loop_pc, loop_path, loop_minimum, loop_rounds>>
LoopIdle ==
    /\ loop_pc = ""
    /\ loop_path = <<>>
    /\ loop_minimum = 0
    /\ loop_rounds = 0

\* the parts of the simulator that are modelled on their own
otherVars == <<seedVars, gmVars, relayVars, listVars, modeVars, loopVars>>
\* none of them is modelled: skip names the parts a specification models
OtherIdleBut(skip) ==
    /\ IF "seed" \in skip THEN TRUE ELSE SeedIdle
    /\ IF "gm" \in skip THEN TRUE ELSE GmIdle
    /\ IF "relay" \in skip THEN TRUE ELSE RelayIdle
    /\ IF "list" \in skip THEN TRUE ELSE ListIdle
    /\ IF "mode" \in skip THEN TRUE ELSE ModeIdle
    /\ IF "loop" \in skip THEN TRUE ELSE LoopIdle

OtherIdle == OtherIdleBut({})

\* the parts a specification of one part leaves alone
butSeed == <<gmVars, relayVars, listVars, modeVars, loopVars>>
butGm == <<seedVars, relayVars, listVars, modeVars, loopVars>>
butRelay == <<seedVars, gmVars, listVars, modeVars, loopVars>>
butList == <<seedVars, gmVars, relayVars, modeVars, loopVars>>
butLoop == <<seedVars, gmVars, relayVars, listVars, modeVars>>

\* the routing layers that are modelled apart from the MAC and from DSDV
extVars == <<greedyVars, oparVars, prudentVars, otherVars>>
ExtIdle == GreedyIdle /\ OparIdle /\ PrudentIdle /\ OtherIdle

(***************************************************************************)
(* Initial state: drone 0 has its packet queued at time 0; drone 1 has a   *)
(* packet or not, fed at a later instant; the two drones are inside or     *)
(* outside each other's sensing range.                                     *)
(***************************************************************************)
InitMac ==
    /\ now = 0
    /\ mac_protocol \in {"CsmaCa", "PureAloha"}
    /\ \E x \in {1, 3} : coords = [d \in Drones |-> <<d * x, 0, 0>>]
    /\ \E kind1 \in {"none", "data", "hello"}, k \in 0..MaxArrival :
          /\ transmitting_queue =
                 [d \in Drones |-> IF d = 0 \/ kind1 # "none" THEN <<d>> ELSE <<>>]
          /\ transmission_mode =
                 [d \in Drones |-> IF d = 1 /\ kind1 = "hello" THEN 1 ELSE 0]
          /\ evq = <<Ev(0, 1, "feed_packet", 0, 0, 0),
                     Ev(k * ArrivalStep, 1, "feed_packet", 1, 0, 0)>>
    /\ number_retransmission_attempt = [d \in Drones |-> 0]
    /\ first_attempt_time = [d \in Drones |-> -1]
    /\ ttl = [d \in Drones |-> 0]
    /\ transmitting_start_time = [d \in Drones |-> -1]
    /\ mac_pc = [d \in Drones |-> "none"]
    /\ backoff = [d \in Drones |-> 0]
    /\ to_wait = [d \in Drones |-> 0]
    /\ start_time = [d \in Drones |-> 0]
    /\ mac_process_finish = [d \in Drones |-> -1]
    /\ channel_states = [d \in Drones |-> FALSE]
    /\ wait_ack_pc = [d \in Drones |-> [a \in 1..MAX_RETRANSMISSION_ATTEMPT + 1 |-> "none"]]
    /\ wait_ack_process_dict = [d \in Drones |-> 0]
    /\ wait_ack_process_finish = [d \in Drones |-> -1]
    /\ mac_delay = <<>>
    /\ datapacket_arrived = {}
    /\ tx_count = [d \in Drones |-> 0]
    /\ fat_writes = [d \in Drones |-> 0]
    /\ hold_since = [d \in Drones |-> -1]
    /\ dropped = {}
    /\ waiting_list = <<>>
    /\ routing_table = <<>>
    /\ creation_time = [d \in Drones |-> 0]
    /\ in_mac = <<>>
    /\ expired = {}
    /\ overflowed = {}
    /\ dsdv_table = <<>>
    /\ hello_inflight = <<>>
    /\ hello_sent = <<>>
    /\ stray = 0
    /\ sleep = [d \in Drones |-> FALSE]
    /\ deliver_time_dict = [d \in Drones |-> -1]
    /\ hop_cnt_dict = [d \in Drones |-> -1]
    /\ ExtIdle

\* the drones run DSDV
Init ==
    /\ InitMac
    /\ routing_protocol = "Dsdv"

\* the routing layer's state, which no step of the MAC touches
dsdvVars == <<dsdv_table, hello_inflight, hello_sent>>
routingVars == <<waiting_list, routing_table, creation_time, in_mac, expired,
                 overflowed, dsdvVars, extVars>>
static == <<mac_protocol, coords, transmission_mode, routingVars, stray,
            routing_protocol, sleep>>
pktVars == <<number_retransmission_attempt, first_attempt_time, ttl,
             transmitting_start_time, fat_writes, tx_count>>
macLocals == <<backoff, to_wait, start_time>>
ackVars == <<wait_ack_pc, wait_ack_process_dict, wait_ack_process_finish>>
deliveryVars == <<deliver_time_dict, hop_cnt_dict>>
metricVars == <<mac_delay, datapacket_arrived, dropped, deliveryVars>>


(***************************************************************************)
(* Drone: feeding the MAC.                                                 *)
(***************************************************************************)
\* Drone.feed_packet: take the head of the transmit queue, let the routing
\* protocol choose the next hop, and run packet_coming for it
feed_packet ==
    /\ Fire("feed_packet")
    /\ LET e == Head(evq)
           d == e.d
       IN  /\ now' = e.t
           /\ IF transmitting_queue[d] # <<>>
              THEN /\ transmitting_queue' =
                          [transmitting_queue EXCEPT ![d] = Tail(@)]
                   /\ evq' = Schedule(Tail(evq), Ev(e.t, 0, "packet_coming", d, 0, 0))
              ELSE /\ evq' = Tail(evq)
                   /\ UNCHANGED transmitting_queue
    /\ UNCHANGED <<static, pktVars, mac_pc, macLocals, mac_process_finish,
                   channel_states, ackVars, metricVars, hold_since>>

\* Drone.packet_coming: count the attempt, start the mac_send process and
\* register it under its key as not finished
packet_coming ==
    /\ Fire("packet_coming")
    /\ LET e == Head(evq)
           d == e.d
       IN  /\ now' = e.t
           /\ number_retransmission_attempt' =
                  [number_retransmission_attempt EXCEPT ![d] = @ + 1]
           /\ mac_process_finish' = [mac_process_finish EXCEPT ![d] = 0]
           /\ mac_pc' = [mac_pc EXCEPT ![d] = "start"]
           /\ evq' = Schedule(Tail(evq), Ev(e.t, 0, "mac_send", d, 0, 0))
    /\ UNCHANGED <<static, transmitting_queue, first_attempt_time, ttl,
                   transmitting_start_time, fat_writes, tx_count, macLocals,
                   channel_states, ackVars, metricVars, hold_since>>

(***************************************************************************)
(* CsmaCa.mac_send, csma_ca.py:68-158, one action per stretch between two  *)
(* yields.                                                                 *)
(***************************************************************************)
\* lines 75-85: draw the backoff, enter the loop and start wait_idle_channel
mac_send ==
    /\ Fire("mac_send")
    /\ mac_protocol = "CsmaCa"
    /\ LET e == Head(evq)
           d == e.d
       IN  /\ now' = e.t
           /\ \E k \in BackoffSlots(number_retransmission_attempt[d]) :
                 /\ backoff' = [backoff EXCEPT ![d] = k * SLOT_DURATION]
                 /\ to_wait' = [to_wait EXCEPT ![d] = DIFS_DURATION + k * SLOT_DURATION]
           /\ mac_pc' = [mac_pc EXCEPT ![d] = "wait_idle"]
           /\ evq' = Schedule(Tail(evq), Ev(e.t, 0, "wait_idle_channel", d, 0, 0))
    /\ UNCHANGED <<static, transmitting_queue, pktVars, start_time,
                   mac_process_finish, channel_states, ackVars, metricVars,
                   hold_since>>

\* CsmaCa.wait_idle_channel, lines 188-197: poll every slot while the channel
\* is busy; when it is idle the process ends and mac_send is resumed
wait_idle_channel ==
    /\ Fire("wait_idle_channel")
    /\ LET e == Head(evq)
           d == e.d
       IN  /\ now' = e.t
           /\ IF check_channel_availability(channel_states, d, coords)
              THEN evq' = Schedule(Tail(evq), Ev(e.t, 1, "channel_idle", d, 0, 0))
              ELSE evq' = Schedule(Tail(evq),
                            Ev(e.t + SLOT_DURATION, 1, "wait_idle_channel", d, 0, 0))
    /\ UNCHANGED <<static, transmitting_queue, pktVars, mac_pc, macLocals,
                   mac_process_finish, channel_states, ackVars, metricVars,
                   hold_since>>

\* lines 87-103: record first_attempt_time on the first attempt, start the
\* listener and the countdown
start_countdown ==
    /\ Fire("channel_idle")
    /\ LET e == Head(evq)
           d == e.d
       IN  /\ now' = e.t
           /\ IF mac_pc[d] # "wait_idle"
              THEN \* the process this event resumes has failed
                   /\ evq' = Tail(evq)
                   /\ UNCHANGED <<first_attempt_time, fat_writes, start_time, mac_pc>>
              ELSE /\ IF IsFirstAttempt(number_retransmission_attempt[d])
                      THEN /\ first_attempt_time' = [first_attempt_time EXCEPT ![d] = e.t]
                           /\ fat_writes' = [fat_writes EXCEPT ![d] = @ + 1]
                      ELSE UNCHANGED <<first_attempt_time, fat_writes>>
                   /\ start_time' = [start_time EXCEPT ![d] = e.t]
                   /\ IF to_wait[d] < 0
                      THEN \* env.timeout of a negative delay raises ValueError
                           /\ mac_pc' = [mac_pc EXCEPT ![d] = "failed"]
                           /\ evq' = Schedule(Tail(evq), Ev(e.t, 0, "listen", d, 0, 0))
                      ELSE /\ mac_pc' = [mac_pc EXCEPT ![d] = "countdown"]
                           /\ evq' = Schedule(
                                       Schedule(Tail(evq), Ev(e.t, 0, "listen", d, 0, 0)),
                                       Ev(e.t + to_wait[d], 1, "countdown", d, 0, 0))
    /\ UNCHANGED <<static, transmitting_queue, number_retransmission_attempt,
                   ttl, transmitting_start_time, tx_count, backoff, to_wait,
                   mac_process_finish, channel_states, ackVars, metricVars,
                   hold_since>>

\* a listener that never interrupts
ListenerInterrupts_Deaf(pc, avail) == FALSE

\* CsmaCa.listen, lines 199-226: while the mac_send of the key is not marked
\* finished, poll the channel; on a busy channel interrupt the mac_send
\* process, unless it has ended, and stop
ListenerInterrupts(pc, avail) == ~avail /\ MacAlive(pc)

listen ==
    /\ Fire("listen")
    /\ LET e == Head(evq)
           d == e.d
           avail == check_channel_availability(channel_states, d, coords)
       IN  /\ now' = e.t
           /\ IF mac_process_finish[d] # 0
              THEN evq' = Tail(evq)
              ELSE IF ListenerInterrupts(mac_pc[d], avail)
                   THEN evq' = Schedule(Tail(evq), Ev(e.t, 0, "interrupt", d, 0, 0))
                   ELSE evq' = Schedule(Tail(evq),
                                 Ev(e.t + ListenInterval * US, 1, "listen", d, 0, 0))
    /\ UNCHANGED <<static, transmitting_queue, pktVars, mac_pc, macLocals,
                   mac_process_finish, channel_states, ackVars, metricVars,
                   hold_since>>


\* the kernel delivers the interrupt: lines 145-158 when mac_send is inside
\* its try block; outside of it the exception ends the process
interrupt ==
    /\ Fire("interrupt")
    /\ LET e == Head(evq)
           d == e.d
           pc == mac_pc[d]
           r == InterruptedCountdown(to_wait[d], backoff[d], e.t - start_time[d])
           q == Cancel(Tail(evq), pc, d)
       IN  /\ now' = e.t
           /\ IF pc \in {"countdown", "request", "airtime", "hold"}
              THEN /\ to_wait' = [to_wait EXCEPT ![d] = r[1]]
                   /\ backoff' = [backoff EXCEPT ![d] = r[2]]
                   \* leaving the with block releases the resource
                   /\ channel_states' =
                          IF pc = "countdown" THEN channel_states
                          ELSE ReleaseResource(channel_states, d)
                   /\ IF r[1] # 0
                      THEN /\ mac_pc' = [mac_pc EXCEPT ![d] = "wait_idle"]
                           /\ evq' = Schedule(q, Ev(e.t, 0, "wait_idle_channel", d, 0, 0))
                      ELSE /\ mac_pc' = [mac_pc EXCEPT ![d] = "done"]
                           /\ evq' = q
              ELSE /\ IF pc \in {"start", "wait_idle"}
                      THEN mac_pc' = [mac_pc EXCEPT ![d] = "failed"]
                      ELSE UNCHANGED mac_pc
                   /\ evq' = Tail(evq)
                   /\ UNCHANGED <<to_wait, backoff, channel_states>>
    /\ UNCHANGED <<static, transmitting_queue, pktVars, start_time,
                   mac_process_finish, ackVars, metricVars, hold_since>>

\* lines 103-111: the countdown expired; mark the process finished and
\* request the drone's own channel resource, which is granted at once
countdown ==
    /\ Fire("countdown")
    /\ LET e == Head(evq)
           d == e.d
       IN  /\ now' = e.t
           /\ to_wait' = [to_wait EXCEPT ![d] = 0]
           /\ mac_process_finish' = MarkFinished(mac_process_finish, d)
           /\ channel_states' = [channel_states EXCEPT ![d] = TRUE]
           /\ hold_since' = [hold_since EXCEPT ![d] = e.t]
           /\ mac_pc' = [mac_pc EXCEPT ![d] = "request"]
           /\ evq' = Schedule(Tail(evq), Ev(e.t, 1, "request", d, 0, 0))
    /\ UNCHANGED <<static, transmitting_queue, pktVars, backoff, start_time,
                   ackVars, metricVars>>

\* lines 113-124: the PHY unicast, then the airtime of the packet.  The
\* frame reaches the receiver when its airtime is over.
transmit ==
    /\ Fire("request")
    /\ LET e == Head(evq)
           d == e.d
       IN  /\ now' = e.t
           /\ transmitting_start_time' = [transmitting_start_time EXCEPT ![d] = e.t]
           /\ ttl' = [ttl EXCEPT ![d] = @ + 1]
           /\ tx_count' = [tx_count EXCEPT ![d] = @ + 1]
           /\ mac_pc' = [mac_pc EXCEPT ![d] = "airtime"]
           /\ \E late \in RxDelaysOf(transmission_mode[d]) :
                 evq' = Schedule(
                          Schedule(Tail(evq),
                              Ev(PhyCallTime(e.t) + DataAirtime + late, 1,
                                 IF transmission_mode[d] = 0
                                 THEN "receive" ELSE "receive_hello",
                                 Peer(d), d, first_attempt_time[d])),
                          Ev(e.t + DataAirtime, 1, "airtime", d, 0, 0))
    /\ UNCHANGED <<static, transmitting_queue, number_retransmission_attempt,
                   first_attempt_time, fat_writes, macLocals,
                   mac_process_finish, channel_states, ackVars, metricVars,
                   hold_since>>

\* lines 126-138: start wait_ack under its key and keep the channel for
\* SIFS + the ACK's airtime
airtime_over ==
    /\ Fire("airtime")
    /\ LET e == Head(evq)
           d == e.d
           a == number_retransmission_attempt[d]
       IN  /\ now' = e.t
           /\ IF transmission_mode[d] = 0
              THEN /\ wait_ack_pc' = [wait_ack_pc EXCEPT ![d][a] = "ack_timeout"]
                   /\ wait_ack_process_dict' = [wait_ack_process_dict EXCEPT ![d] = a]
                   /\ wait_ack_process_finish' =
                          [wait_ack_process_finish EXCEPT ![d] = 0]
                   /\ mac_pc' = [mac_pc EXCEPT ![d] = "hold"]
                   /\ evq' = Schedule(
                               Schedule(Tail(evq),
                                   Ev(e.t + AckProtection, 1, "hold", d, 0, 0)),
                               Ev(e.t + ACK_TIMEOUT, 1, "ack_timeout", d, a, 0))
                   /\ UNCHANGED channel_states
              ELSE \* lines 140-143, a broadcast: the with block ends here
                   /\ channel_states' = ReleaseResource(channel_states, d)
                   /\ mac_pc' = [mac_pc EXCEPT ![d] = "done"]
                   /\ evq' = Tail(evq)
                   /\ UNCHANGED ackVars
    /\ UNCHANGED <<static, transmitting_queue, pktVars, macLocals,
                   mac_process_finish, metricVars, hold_since>>

\* the end of the with block: release the resource; mac_send ends, and with
\* it the packet_coming that ran it and the wait_ack that waited for that
release ==
    /\ Fire("hold")
    /\ LET e == Head(evq)
           d == e.d
       IN  /\ now' = e.t
           /\ channel_states' = ReleaseResource(channel_states, d)
           /\ mac_pc' = [mac_pc EXCEPT ![d] = "done"]
           /\ wait_ack_pc' = [wait_ack_pc EXCEPT ![d] =
                  [a \in DOMAIN @ |-> IF @[a] = "resending" THEN "done" ELSE @[a]]]
           /\ evq' = Tail(evq)
    /\ UNCHANGED <<static, transmitting_queue, pktVars, macLocals,
                   mac_process_finish, wait_ack_process_dict,
                   wait_ack_process_finish, metricVars, hold_since>>


(***************************************************************************)
(* PureAloha.mac_send, pure_aloha.py:48-90.                                *)
(***************************************************************************)
\* line 49: the 0.01 us delay
aloha_mac_send ==
    /\ Fire("mac_send")
    /\ mac_protocol = "PureAloha"
    /\ LET e == Head(evq)
           d == e.d
       IN  /\ now' = e.t
           /\ mac_pc' = [mac_pc EXCEPT ![d] = "aloha_delay"]
           /\ evq' = Schedule(Tail(evq), Ev(e.t + AlohaDelay, 1, "aloha_delay", d, 0, 0))
    /\ UNCHANGED <<static, transmitting_queue, pktVars, macLocals,
                   mac_process_finish, channel_states, ackVars, metricVars,
                   hold_since>>

\* lines 51-75: first_attempt_time on the first attempt, mark the process
\* finished, the PHY unicast and the airtime
aloha_transmit ==
    /\ Fire("aloha_delay")
    /\ LET e == Head(evq)
           d == e.d
           fat == IF IsFirstAttempt(number_retransmission_attempt[d])
                  THEN e.t ELSE first_attempt_time[d]
       IN  /\ now' = e.t
           /\ first_attempt_time' = [first_attempt_time EXCEPT ![d] = fat]
           /\ fat_writes' = [fat_writes EXCEPT ![d] =
                  IF IsFirstAttempt(number_retransmission_attempt[d]) THEN @ + 1 ELSE @]
           /\ mac_process_finish' = MarkFinished(mac_process_finish, d)
           /\ ttl' = [ttl EXCEPT ![d] = @ + 1]
           /\ tx_count' = [tx_count EXCEPT ![d] = @ + 1]
           /\ mac_pc' = [mac_pc EXCEPT ![d] = "aloha_airtime"]
           /\ \E late \in RxDelaysOf(transmission_mode[d]) :
                 evq' = Schedule(
                          Schedule(Tail(evq),
                              Ev(PhyCallTime(e.t) + DataAirtime + late, 1,
                                 IF transmission_mode[d] = 0
                                 THEN "receive" ELSE "receive_hello",
                                 Peer(d), d, fat)),
                          Ev(e.t + DataAirtime, 1, "aloha_airtime", d, 0, 0))
    /\ UNCHANGED <<static, transmitting_queue, number_retransmission_attempt,
                   transmitting_start_time, macLocals, channel_states, ackVars,
                   metricVars, hold_since>>

\* lines 77-85: start wait_ack under its key; wait SIFS + the ACK's airtime
aloha_airtime_over ==
    /\ Fire("aloha_airtime")
    /\ LET e == Head(evq)
           d == e.d
           a == number_retransmission_attempt[d]
       IN  /\ now' = e.t
           /\ IF transmission_mode[d] = 0
              THEN /\ wait_ack_pc' = [wait_ack_pc EXCEPT ![d][a] = "ack_timeout"]
                   /\ wait_ack_process_dict' = [wait_ack_process_dict EXCEPT ![d] = a]
                   /\ wait_ack_process_finish' =
                          [wait_ack_process_finish EXCEPT ![d] = 0]
                   /\ mac_pc' = [mac_pc EXCEPT ![d] = "aloha_hold"]
                   /\ evq' = Schedule(
                               Schedule(Tail(evq),
                                   Ev(e.t + AckProtection, 1, "aloha_hold", d, 0, 0)),
                               Ev(e.t + ACK_TIMEOUT, 1, "ack_timeout", d, a, 0))
              ELSE \* lines 87-90, a broadcast: mac_send ends here
                   /\ mac_pc' = [mac_pc EXCEPT ![d] = "done"]
                   /\ evq' = Tail(evq)
                   /\ UNCHANGED ackVars
    /\ UNCHANGED <<static, transmitting_queue, pktVars, macLocals,
                   mac_process_finish, channel_states, metricVars, hold_since>>

\* mac_send ends, and with it packet_coming and the wait_ack that ran it
aloha_done ==
    /\ Fire("aloha_hold")
    /\ LET e == Head(evq)
           d == e.d
       IN  /\ now' = e.t
           /\ mac_pc' = [mac_pc EXCEPT ![d] = "done"]
           /\ wait_ack_pc' = [wait_ack_pc EXCEPT ![d] =
                  [a \in DOMAIN @ |-> IF @[a] = "resending" THEN "done" ELSE @[a]]]
           /\ evq' = Tail(evq)
    /\ UNCHANGED <<static, transmitting_queue, pktVars, macLocals,
                   mac_process_finish, channel_states, wait_ack_process_dict,
                   wait_ack_process_finish, metricVars, hold_since>>

(***************************************************************************)
(* wait_ack, csma_ca.py:160-186 and pure_aloha.py:92-124.                  *)
(***************************************************************************)
\* the sample wait_ack and the ACK branch of packet_reception append to
\* metrics.mac_delay: (now - first_attempt_time) / 1e3, kept as the pair of
\* the difference in model time units and the divisor
MacDelaySample(d, t, fat) == [d |-> d, num |-> t - fat, den |-> 1000 * US]

\* ACK_TIMEOUT elapsed
ack_timeout ==
    /\ Fire("ack_timeout")
    /\ LET e == Head(evq)
           d == e.d
           a == e.a
       IN  /\ now' = e.t
           /\ IF MayRetransmit(number_retransmission_attempt[d])
              THEN /\ IF mac_protocol = "CsmaCa"
                      THEN /\ wait_ack_pc' = [wait_ack_pc EXCEPT ![d][a] = "resending"]
                           /\ evq' = Schedule(Tail(evq),
                                        Ev(e.t, 0, "packet_coming", d, 0, 0))
                      ELSE \E r \in AlohaWaitDraws(number_retransmission_attempt[d]) :
                           /\ wait_ack_pc' = [wait_ack_pc EXCEPT ![d][a] = "random_wait"]
                           /\ evq' = Schedule(Tail(evq),
                                        Ev(e.t + r * AlohaWaitUnit * US, 1,
                                           "random_wait", d, a, 0))
                   /\ UNCHANGED <<mac_delay, wait_ack_process_finish, dropped>>
              ELSE /\ mac_delay' = Append(mac_delay,
                                          MacDelaySample(d, e.t, first_attempt_time[d]))
                   /\ wait_ack_process_finish' = MarkFinished(wait_ack_process_finish, d)
                   /\ wait_ack_pc' = [wait_ack_pc EXCEPT ![d][a] = "done"]
                   /\ dropped' = dropped \cup {d}
                   /\ evq' = Tail(evq)
    /\ UNCHANGED <<static, transmitting_queue, pktVars, mac_pc, macLocals,
                   mac_process_finish, channel_states, wait_ack_process_dict,
                   datapacket_arrived, deliveryVars, hold_since>>

\* pure_aloha.py:111-112: the random wait is over, resend
random_wait ==
    /\ Fire("random_wait")
    /\ LET e == Head(evq)
           d == e.d
           a == e.a
       IN  /\ now' = e.t
           /\ wait_ack_pc' = [wait_ack_pc EXCEPT ![d][a] = "resending"]
           /\ evq' = Schedule(Tail(evq), Ev(e.t, 0, "packet_coming", d, 0, 0))
    /\ UNCHANGED <<static, transmitting_queue, pktVars, mac_pc, macLocals,
                   mac_process_finish, channel_states, wait_ack_process_dict,
                   wait_ack_process_finish, metricVars, hold_since>>

\* the kernel delivers the interrupt to wait_ack: the except branch,
\* csma_ca.py:183-186; the process ends
interrupt_wait_ack ==
    /\ Fire("interrupt_wait_ack")
    /\ LET e == Head(evq)
           d == e.d
           a == e.a
       IN  /\ now' = e.t
           /\ IF WaitAckAlive(wait_ack_pc[d][a])
              THEN /\ wait_ack_pc' = [wait_ack_pc EXCEPT ![d][a] = "interrupted"]
                   /\ evq' = SelectSeq(Tail(evq), LAMBDA x :
                                ~(x.k \in {"ack_timeout", "random_wait"}
                                  /\ x.d = d /\ x.a = a))
              ELSE /\ evq' = Tail(evq)
                   /\ UNCHANGED wait_ack_pc
    /\ UNCHANGED <<static, transmitting_queue, pktVars, mac_pc, macLocals,
                   mac_process_finish, channel_states, wait_ack_process_dict,
                   wait_ack_process_finish, metricVars, hold_since>>


(***************************************************************************)
(* Reception.  The channel hands a frame to the receiver at the end of its *)
(* airtime, or loses it (collision, or receiver out of range).             *)
(***************************************************************************)
InRange(crd, i, j) ==
    euclidean_distance_3d_sq(crd[i], crd[j]) < SENSING_RANGE * SENSING_RANGE

FrameOutcomes(crd, i, j) == IF InRange(crd, i, j) THEN {"received", "lost"} ELSE {"lost"}

\* packet_reception of a DataPacket at its destination, greedy.py:115-140
\* and dsdv.py:139-159: account the delivery, build the ACK, wait SIFS.
\* The ACK carries the receiver's copy of the packet.
receive ==
    /\ Fire("receive")
    /\ LET e == Head(evq)
           me == e.d
           src == e.a
       IN  /\ now' = e.t
           /\ \E outcome \in FrameOutcomes(coords, src, me) :
                 IF outcome = "received"
                 THEN /\ datapacket_arrived' = datapacket_arrived \cup {src}
                      /\ IF AccountsDelivery(routing_protocol, datapacket_arrived, src)
                         THEN /\ deliver_time_dict' = [deliver_time_dict EXCEPT
                                     ![src] = e.t - creation_time[src]]
                              /\ hop_cnt_dict' = [hop_cnt_dict EXCEPT ![src] = ttl[src]]
                         ELSE UNCHANGED deliveryVars
                      /\ evq' = Schedule(Tail(evq),
                                   Ev(e.t + SIFS_DURATION, 1, "ack_sifs", me, src, e.f))
                 ELSE /\ evq' = Tail(evq)
                      /\ UNCHANGED <<datapacket_arrived, deliveryVars>>
    /\ UNCHANGED <<static, transmitting_queue, pktVars, mac_pc, macLocals,
                   mac_process_finish, channel_states, ackVars, mac_delay,
                   dropped, hold_since>>

\* packet_reception of a hello packet, greedy.py:111-113 and dsdv.py:135-137:
\* the neighbour table is updated, nothing is sent back
receive_hello ==
    /\ Fire("receive_hello")
    /\ now' = Head(evq).t
    /\ evq' = Tail(evq)
    /\ UNCHANGED <<static, transmitting_queue, pktVars, mac_pc, macLocals,
                   mac_process_finish, channel_states, ackVars, metricVars,
                   hold_since>>

\* a receiver that answers in its sleep
AckIsSent_Always(asleep) == TRUE

\* greedy.py:143 and 166, dsdv.py:162 and 185: if not self.my_drone.sleep
AckIsSent(asleep) == ~asleep

\* greedy.py:140-148, dsdv.py:159-167: SIFS after the reception, unicast
\* the ACK without contention, then its airtime; a drone that sleeps by
\* then sends nothing
ack_unicast ==
    /\ Fire("ack_sifs")
    /\ LET e == Head(evq)
       IN  /\ now' = e.t
           /\ evq' = IF AckIsSent(sleep[e.d])
                     THEN Schedule(Tail(evq),
                              Ev(e.t + AckAirtime, 1, "ack_airtime", e.d, e.a, e.f))
                     ELSE Tail(evq)
    /\ UNCHANGED <<static, transmitting_queue, pktVars, mac_pc, macLocals,
                   mac_process_finish, channel_states, ackVars, metricVars,
                   hold_since>>

\* an ACK handler that never interrupts, and one that always does
AckInterrupts_Never(finish, pc) == FALSE
AckInterrupts_Always(finish, pc) == TRUE

\* the ACK branch of packet_reception, greedy.py:176-191 and dsdv.py:195-210:
\* the interrupt is issued iff the key is not marked finished and the
\* registered wait_ack has not ended
AckInterrupts(finish, pc) == finish = 0 /\ WaitAckAlive(pc)

\* greedy.py:147: the previous hop receives the ACK (or the channel loses it)
ack_reception ==
    /\ Fire("ack_airtime")
    /\ LET e == Head(evq)
           me == e.a
           a == wait_ack_process_dict[me]
       IN  /\ now' = e.t
           /\ \E outcome \in FrameOutcomes(coords, e.d, me) :
                 IF outcome = "received"
                 THEN /\ mac_delay' = Append(mac_delay, MacDelaySample(me, e.t, e.f))
                      /\ transmitting_queue' = [transmitting_queue EXCEPT
                             ![me] = remove_from_queue(@, me)]
                      /\ IF AckInterrupts(wait_ack_process_finish[me], wait_ack_pc[me][a])
                         THEN /\ wait_ack_process_finish' =
                                     MarkFinished(wait_ack_process_finish, me)
                              /\ evq' = Schedule(Tail(evq),
                                           Ev(e.t, 0, "interrupt_wait_ack", me, a, 0))
                         ELSE /\ evq' = Tail(evq)
                              /\ UNCHANGED wait_ack_process_finish
                 ELSE /\ evq' = Tail(evq)
                      /\ UNCHANGED <<mac_delay, transmitting_queue,
                                     wait_ack_process_finish>>
    /\ UNCHANGED <<static, pktVars, mac_pc, macLocals, mac_process_finish,
                   channel_states, wait_ack_pc, wait_ack_process_dict,
                   datapacket_arrived, dropped, deliveryVars, hold_since>>

Next ==
    \/ feed_packet
    \/ packet_coming
    \/ mac_send
    \/ wait_idle_channel
    \/ start_countdown
    \/ listen
    \/ interrupt
    \/ countdown
    \/ transmit
    \/ airtime_over
    \/ release
    \/ aloha_mac_send
    \/ aloha_transmit
    \/ aloha_airtime_over
    \/ aloha_done
    \/ ack_timeout
    \/ random_wait
    \/ interrupt_wait_ack
    \/ receive
    \/ receive_hello
    \/ ack_unicast
    \/ ack_reception

Spec == Init /\ [][Next]_vars

TypeOK ==
    /\ now \in Nat
    /\ \A i \in 1..Len(evq) : evq[i].t >= now
    /\ \A i \in 1..(Len(evq) - 1) : EvLE(evq[i], evq[i + 1])


(***************************************************************************)
(* SpecDeliver.  The same MAC layer under each of the routing protocols,   *)
(* with both packets fed at time 0.                                        *)
(***************************************************************************)
InitDeliver ==
    /\ InitMac
    /\ routing_protocol \in RoutingProtocols
    /\ \A i \in 1..Len(evq) : evq[i].t = 0

SpecDeliver == InitDeliver /\ [][Next]_vars


(***************************************************************************)
(* SpecFault.  CSMA/CA under DSDV, the drones in range of each other, a    *)
(* data packet of drone 0 and a hello of drone 1 fed at time 0, and an     *)
(* environment that may throw an interrupt into a mac_send that is inside  *)
(* its transmission block, which the listener of the code never does.      *)
(***************************************************************************)
InitFault ==
    /\ Init
    /\ mac_protocol = "CsmaCa"
    /\ routing_protocol = "Dsdv"
    /\ InRange(coords, 0, 1)
    /\ transmission_mode[1] = 1
    /\ \A i \in 1..Len(evq) : evq[i].t = 0

\* process.interrupt() on a mac_send that requests or holds the resource
stray_interrupt ==
    \E d \in Drones :
        /\ stray = 0
        /\ mac_pc[d] \in {"request", "airtime", "hold"}
        /\ evq' = Schedule(evq, Ev(now, 0, "interrupt", d, 0, 0))
        /\ stray' = stray + 1
        /\ UNCHANGED <<now, mac_protocol, coords, transmission_mode, routingVars,
                       routing_protocol, sleep, transmitting_queue, pktVars, mac_pc, macLocals,
                       mac_process_finish, channel_states, ackVars, metricVars,
                       hold_since>>

NextFault ==
    \/ feed_packet
    \/ packet_coming
    \/ mac_send
    \/ wait_idle_channel
    \/ start_countdown
    \/ listen
    \/ interrupt
    \/ countdown
    \/ transmit
    \/ airtime_over
    \/ release
    \/ ack_timeout
    \/ interrupt_wait_ack
    \/ receive
    \/ receive_hello
    \/ ack_unicast
    \/ ack_reception
    \/ stray_interrupt

SpecFault == InitFault /\ [][NextFault]_vars


(***************************************************************************)
(* SpecSleep.  CSMA/CA under DSDV and Greedy, both packets fed at time 0,   *)
(* and drones whose energy may run out: a drone can fall asleep while it   *)
(* switches from receiving to transmitting, before its ACK is due.         *)
(***************************************************************************)
InitSleep ==
    /\ InitMac
    /\ mac_protocol = "CsmaCa"
    /\ routing_protocol \in {"Dsdv", "Greedy"}
    /\ \A i \in 1..Len(evq) : evq[i].t = 0

\* the residual energy of drone d falls below the threshold: drone.sleep
fall_asleep ==
    \E d \in Drones :
        /\ ~sleep[d]
        /\ Pending(evq, {"ack_sifs"}, d) # {}
        /\ sleep' = [sleep EXCEPT ![d] = TRUE]
        /\ UNCHANGED <<now, evq, mac_protocol, coords, transmission_mode,
                       routingVars, stray, routing_protocol, transmitting_queue,
                       pktVars, mac_pc, macLocals, mac_process_finish,
                       channel_states, ackVars, metricVars, hold_since>>

NextSleep ==
    \/ feed_packet
    \/ packet_coming
    \/ mac_send
    \/ wait_idle_channel
    \/ start_countdown
    \/ listen
    \/ interrupt
    \/ countdown
    \/ transmit
    \/ airtime_over
    \/ release
    \/ ack_timeout
    \/ interrupt_wait_ack
    \/ receive
    \/ receive_hello
    \/ ack_unicast
    \/ ack_reception
    \/ fall_asleep

SpecSleep == InitSleep /\ [][NextSleep]_vars


(***************************************************************************)
(* SpecLife.  Three drones in a line: packet 1 starts in the transmit      *)
(* queue of drone 0, packet 2 in that of drone 1, both are addressed to    *)
(* the last drone.  Time is counted in sweeps of check_waiting_list; what  *)
(* happens between two sweeps may happen in any order.  The MAC is one     *)
(* packet at a time per drone: a transmission attempt reaches the next hop *)
(* or not, its ACK comes back or wait_ack times out.                       *)
(***************************************************************************)
Nodes == 0..2
Destination == CHOOSE n \in Nodes : \A m \in Nodes : m <= n
Packets == {1, 2}
Origin(p) == p - 1

\* drone.max_queue_size
MaxQueueSize == 1
\* pkd.deadline, in sweeps
Deadline == 2
\* the simulation ends after SimTime sweeps
SimTime == 4

\* the entries routing_table.has_entry can return at drone n for the
\* destination; n itself stands for no route
Hops(n) == {m \in Nodes : m >= n}

Idle == [p |-> 0, hop |-> 0, stage |-> "idle", ack |-> FALSE]

\* DsdvRoutingTable: an entry is [next hop, hop count, sequence number]; a
\* drone starts with its own entry only
NoEntry == [next_hop |-> -1, hop_count |-> -1, seq |-> -1]
OwnEntry(n) == [next_hop |-> n, hop_count |-> 0, seq |-> 0]

macVars == <<evq, mac_protocol, coords, transmission_mode, first_attempt_time,
             ttl, transmitting_start_time, mac_pc, backoff, to_wait,
             start_time, mac_process_finish, channel_states, wait_ack_pc,
             wait_ack_process_dict, wait_ack_process_finish, mac_delay,
             tx_count, fat_writes, hold_since, stray, routing_protocol,
             deliveryVars, sleep, extVars>>

LifeInit ==
    /\ now = 0
    /\ evq = <<>>
    /\ mac_protocol = "CsmaCa"
    /\ coords = [n \in Nodes |-> <<n, 0, 0>>]
    /\ transmitting_queue =
           [n \in Nodes |-> IF \E p \in Packets : Origin(p) = n
                            THEN <<CHOOSE p \in Packets : Origin(p) = n>> ELSE <<>>]
    /\ transmission_mode = [n \in Nodes |-> 0]
    /\ number_retransmission_attempt = [n \in Nodes |-> [p \in Packets |-> 0]]
    /\ first_attempt_time = [n \in Nodes |-> -1]
    /\ ttl = [n \in Nodes |-> 0]
    /\ transmitting_start_time = [n \in Nodes |-> -1]
    /\ mac_pc = [n \in Nodes |-> "none"]
    /\ backoff = [n \in Nodes |-> 0]
    /\ to_wait = [n \in Nodes |-> 0]
    /\ start_time = [n \in Nodes |-> 0]
    /\ mac_process_finish = [n \in Nodes |-> -1]
    /\ channel_states = [n \in Nodes |-> FALSE]
    /\ wait_ack_pc = <<>>
    /\ wait_ack_process_dict = <<>>
    /\ wait_ack_process_finish = <<>>
    /\ mac_delay = <<>>
    /\ datapacket_arrived = {}
    /\ tx_count = [n \in Nodes |-> 0]
    /\ fat_writes = [n \in Nodes |-> 0]
    /\ hold_since = [n \in Nodes |-> -1]
    /\ dropped = {}
    /\ waiting_list = [n \in Nodes |-> <<>>]
    /\ routing_table \in {f \in [Nodes -> Nodes] : \A n \in Nodes : f[n] \in Hops(n)}
    /\ creation_time = [p \in Packets |-> 0]
    /\ in_mac = [n \in Nodes |-> Idle]
    /\ expired = {}
    /\ overflowed = {}
    /\ stray = 0
    /\ routing_protocol = "Dsdv"
    /\ sleep = [n \in Nodes |-> FALSE]
    /\ dsdv_table = [n \in Nodes |-> [dst \in Nodes |-> IF dst = n THEN OwnEntry(n) ELSE NoEntry]]
    /\ hello_inflight = [n \in Nodes |-> [table |-> [dst \in Nodes |-> NoEntry], to |-> {}]]
    /\ hello_sent = [n \in Nodes |-> [periodic |-> 0, triggered |-> 0]]
    /\ deliver_time_dict = [p \in Packets |-> -1]
    /\ hop_cnt_dict = [p \in Packets |-> -1]
    /\ ExtIdle

\* Dsdv.next_hop_selection, dsdv.py:103-121: there is a route iff the best
\* next hop is not the drone itself
next_hop_selection(table, n) == table[n] # n

\* a sweep that takes every packet for expired
DeadlinePassed_Always(t, created) == TRUE

\* dsdv.py:237, greedy.py:218
DeadlinePassed(t, created) == t > created + Deadline

\* a relay that takes every packet
HasCapacity_Always(q) == TRUE

\* dsdv.py:170, greedy.py:151
HasCapacity(q) == Len(q) < MaxQueueSize

\* a sweep that re-queues without a route
MayRequeue_Always(has_route) == TRUE

\* dsdv.py:242 `if has_route:`, greedy.py:224 and opar.py:337
\* `if best_next_hop_id != self.my_drone.identifier:`
MayRequeue(has_route) == has_route

RemoveAt(l, i) == SubSeq(l, 1, i - 1) \o SubSeq(l, i + 1, Len(l))

\* the for loop of check_waiting_list, dsdv.py:236-246, from position i on.
\* The loop walks the list by position while its body removes from the
\* list, so the packet behind a removed one moves into the position just
\* visited and is not looked at in this sweep.
RECURSIVE Sweep(_, _, _, _, _, _)
Sweep(i, wl, q, gone, t, has_route) ==
    IF i > Len(wl)
    THEN [wl |-> wl, q |-> q, gone |-> gone]
    ELSE IF DeadlinePassed(t, creation_time[wl[i]])
         THEN Sweep(i + 1, RemoveAt(wl, i), q, gone \cup {wl[i]}, t, has_route)
         ELSE IF MayRequeue(has_route)
              THEN Sweep(i + 1, RemoveAt(wl, i), Append(q, wl[i]), gone, t, has_route)
              ELSE Sweep(i + 1, wl, q, gone, t, has_route)

\* Drone.feed_packet: take the head of the transmit queue; with a route run
\* packet_coming for it, which counts the attempt; without one put it on the
\* waiting list
route_packet ==
    \E n \in Nodes :
        /\ now < SimTime
        /\ in_mac[n].stage = "idle"
        /\ transmitting_queue[n] # <<>>
        /\ LET p == Head(transmitting_queue[n])
           IN  /\ transmitting_queue' = [transmitting_queue EXCEPT ![n] = Tail(@)]
               /\ IF next_hop_selection(routing_table, n)
                  THEN /\ in_mac' = [in_mac EXCEPT ![n] =
                              [p |-> p, hop |-> routing_table[n], stage |-> "tx", ack |-> FALSE]]
                       /\ number_retransmission_attempt' =
                              [number_retransmission_attempt EXCEPT ![n][p] = @ + 1]
                       /\ UNCHANGED waiting_list
                  ELSE /\ waiting_list' = [waiting_list EXCEPT ![n] = Append(@, p)]
                       /\ UNCHANGED <<in_mac, number_retransmission_attempt>>
        /\ UNCHANGED <<now, macVars, dsdvVars, datapacket_arrived, dropped, routing_table,
                       creation_time, expired, overflowed>>

\* the frame of drone n is on air.  If the next hop gets it: packet_reception
\* of a DataPacket, dsdv.py:139-193 - the destination accounts the delivery
\* and answers with an ACK, a relay with room in its queue enqueues its copy
\* and answers with an ACK, a relay with a full queue does nothing.  The ACK
\* reaches drone n or is lost.
packet_reception ==
    \E n \in Nodes :
        /\ now < SimTime
        /\ in_mac[n].stage = "tx"
        /\ LET p == in_mac[n].p
               hop == in_mac[n].hop
           IN  \E outcome \in {"received", "lost"}, ack_outcome \in {"received", "lost"} :
                  IF outcome = "lost"
                  THEN /\ ack_outcome = "lost"
                       /\ in_mac' = [in_mac EXCEPT ![n].stage = "wait_ack"]
                       /\ UNCHANGED <<datapacket_arrived, transmitting_queue, overflowed>>
                  ELSE IF hop = Destination
                  THEN /\ datapacket_arrived' = datapacket_arrived \cup {p}
                       /\ in_mac' = [in_mac EXCEPT ![n].stage = "wait_ack",
                                                   ![n].ack = (ack_outcome = "received")]
                       /\ UNCHANGED <<transmitting_queue, overflowed>>
                  ELSE IF HasCapacity(transmitting_queue[hop])
                  THEN /\ transmitting_queue' =
                              [transmitting_queue EXCEPT ![hop] = Append(@, p)]
                       /\ in_mac' = [in_mac EXCEPT ![n].stage = "wait_ack",
                                                   ![n].ack = (ack_outcome = "received")]
                       /\ UNCHANGED <<datapacket_arrived, overflowed>>
                  ELSE /\ ack_outcome = "lost"
                       /\ overflowed' = overflowed \cup {p}
                       /\ in_mac' = [in_mac EXCEPT ![n].stage = "wait_ack"]
                       /\ UNCHANGED <<datapacket_arrived, transmitting_queue>>
        /\ UNCHANGED <<now, macVars, dsdvVars, number_retransmission_attempt, dropped,
                       waiting_list, routing_table, creation_time, expired>>

\* packet_reception of an AckPacket, dsdv.py:195-210: the packet leaves the
\* transmit queue and the wait_ack of the sender is interrupted
ack_packet_reception ==
    \E n \in Nodes :
        /\ now < SimTime
        /\ in_mac[n].stage = "wait_ack"
        /\ in_mac[n].ack
        /\ transmitting_queue' =
               [transmitting_queue EXCEPT ![n] = remove_from_queue(@, in_mac[n].p)]
        /\ in_mac' = [in_mac EXCEPT ![n] = Idle]
        /\ UNCHANGED <<now, macVars, dsdvVars, number_retransmission_attempt,
                       datapacket_arrived, dropped, waiting_list, routing_table,
                       creation_time, expired, overflowed>>

\* wait_ack, csma_ca.py:160-186: no ACK within ACK_TIMEOUT; packet_coming
\* again while the counter allows it, else the packet is dropped
wait_ack ==
    \E n \in Nodes :
        /\ now < SimTime
        /\ in_mac[n].stage = "wait_ack"
        /\ ~in_mac[n].ack
        /\ LET p == in_mac[n].p
           IN  IF MayRetransmit(number_retransmission_attempt[n][p])
               THEN /\ number_retransmission_attempt' =
                           [number_retransmission_attempt EXCEPT ![n][p] = @ + 1]
                    /\ in_mac' = [in_mac EXCEPT ![n].stage = "tx"]
                    /\ UNCHANGED dropped
               ELSE /\ dropped' = dropped \cup {<<n, p>>}
                    /\ in_mac' = [in_mac EXCEPT ![n] = Idle]
                    /\ UNCHANGED number_retransmission_attempt
        /\ UNCHANGED <<now, macVars, dsdvVars, transmitting_queue, datapacket_arrived,
                       waiting_list, routing_table, creation_time, expired,
                       overflowed>>

\* packet_reception of a hello packet, dsdv.py:135-137: routing_table.update_item
\* installs another next hop, or the purge leaves none
update_item ==
    \E n \in Nodes, h \in Nodes :
        /\ now < SimTime
        /\ h \in Hops(n)
        /\ h # routing_table[n]
        /\ routing_table' = [routing_table EXCEPT ![n] = h]
        /\ UNCHANGED <<now, macVars, dsdvVars, transmitting_queue,
                       number_retransmission_attempt, datapacket_arrived, dropped,
                       waiting_list, creation_time, in_mac, expired, overflowed>>

\* check_waiting_list, dsdv.py:232-248 and greedy.py:213-229: check_interval
\* has passed, every drone sweeps its waiting list
check_waiting_list ==
    /\ now < SimTime
    /\ now' = now + 1
    /\ LET swept == [n \in Nodes |->
                        Sweep(1, waiting_list[n], transmitting_queue[n], {}, now + 1,
                              next_hop_selection(routing_table, n))]
       IN  /\ waiting_list' = [n \in Nodes |-> swept[n].wl]
           /\ transmitting_queue' = [n \in Nodes |-> swept[n].q]
           /\ expired' = expired \cup UNION {swept[n].gone : n \in Nodes}
    /\ UNCHANGED <<macVars, dsdvVars, number_retransmission_attempt, datapacket_arrived,
                   dropped, routing_table, creation_time, in_mac, overflowed>>

NextLife ==
    \/ route_packet
    \/ packet_reception
    \/ ack_packet_reception
    \/ wait_ack
    \/ update_item
    \/ check_waiting_list

SpecLife == LifeInit /\ [][NextLife]_vars


(***************************************************************************)
(* SpecDsdv.  The DSDV routing tables of the three drones: periodic        *)
(* hellos, the purge with its triggered hello, and the update of a table   *)
(* by a received hello.  hello_inflight stands for the way of a hello      *)
(* from the transmit queue through the MAC to the neighbours'              *)
(* packet_reception; one hello is on its way at a time.                    *)
(***************************************************************************)
\* the drones together send at most MaxHello periodic hellos and at most
\* MaxTriggered triggered ones
MaxHello == 4
MaxTriggered == 2

\* the hellos of a kind that the drones in S have sent
RECURSIVE Sent(_, _)
Sent(S, kind) ==
    IF S = {} THEN 0
    ELSE LET n == CHOOSE n \in S : TRUE
         IN  hello_sent[n][kind] + Sent(S \ {n}, kind)

lifeVars == <<now, transmitting_queue, number_retransmission_attempt,
              datapacket_arrived, dropped, waiting_list, routing_table,
              creation_time, in_mac, expired, overflowed>>

InitDsdv ==
    /\ LifeInit
    /\ routing_table = [n \in Nodes |-> n]

Neighbours(n) == {m \in Nodes \ {n} : InRange(coords, n, m)}

\* the hellos are half a second apart and on the air for microseconds: the
\* hello before has reached the neighbours when the next one is made
ChannelClear == \A m \in Nodes : hello_inflight[m].to = {}

\* a hello that raises the sequence number by one
NextSequenceNumber_ByOne(s) == s + 1

\* dsdv.py:82, self.routing_table.routing_table[self.my_drone.identifier][2] += 2
NextSequenceNumber(s) == s + 2

\* the update rule: a strictly greater sequence number wins, on a tie the
\* fewer hops
Better(mine, theirs) ==
    \/ mine = NoEntry
    \/ theirs.seq > mine.seq
    \/ theirs.seq = mine.seq /\ theirs.hop_count + 1 < mine.hop_count

\* DsdvRoutingTable.update_item: the table after a hello of drone src
UpdatedTable(tbl, src, snapshot) ==
    [dst \in Nodes |->
        IF snapshot[dst] # NoEntry /\ Better(tbl[dst], snapshot[dst])
        THEN [next_hop |-> src, hop_count |-> snapshot[dst].hop_count + 1,
              seq |-> snapshot[dst].seq]
        ELSE tbl[dst]]

\* broadcast_hello_packet, dsdv.py:79-95, called by
\* broadcast_hello_packet_periodically, dsdv.py:97-101
broadcast_hello_packet ==
    \E n \in Nodes :
        /\ Sent(Nodes, "periodic") < MaxHello
        /\ ChannelClear
        /\ LET tbl == [dsdv_table[n] EXCEPT ![n].seq = NextSequenceNumber(@)]
           IN  /\ dsdv_table' = [dsdv_table EXCEPT ![n] = tbl]
               /\ hello_inflight' = [hello_inflight EXCEPT
                      ![n] = [table |-> tbl, to |-> Neighbours(n)]]
        /\ hello_sent' = [hello_sent EXCEPT ![n].periodic = @ + 1]
        /\ UNCHANGED <<macVars, lifeVars>>

\* detect_broken_link_periodically, dsdv.py:51-77: the purge has removed
\* the entries in gone (flag = 1), and the table goes out in a hello
detect_broken_link_periodically ==
    \E n \in Nodes : \E gone \in SUBSET (Nodes \ {n}) :
        /\ Sent(Nodes, "triggered") < MaxTriggered
        /\ ChannelClear
        /\ gone # {}
        /\ \A dst \in gone : dsdv_table[n][dst] # NoEntry
        /\ LET tbl == [dst \in Nodes |->
                          IF dst \in gone THEN NoEntry ELSE dsdv_table[n][dst]]
           IN  /\ dsdv_table' = [dsdv_table EXCEPT ![n] = tbl]
               /\ hello_inflight' = [hello_inflight EXCEPT
                      ![n] = [table |-> tbl, to |-> Neighbours(n)]]
        /\ hello_sent' = [hello_sent EXCEPT ![n].triggered = @ + 1]
        /\ UNCHANGED <<macVars, lifeVars>>

\* the airtime of the hello of drone src is over: packet_reception of a
\* DsdvHelloPacket, dsdv.py:135-137, at the neighbours that got the frame
hello_packet_reception ==
    \E src \in Nodes :
        /\ hello_inflight[src].to # {}
        /\ \E got \in SUBSET hello_inflight[src].to :
              dsdv_table' =
                  [m \in Nodes |->
                      IF m \in got
                      THEN UpdatedTable(dsdv_table[m], src, hello_inflight[src].table)
                      ELSE dsdv_table[m]]
        /\ hello_inflight' = [hello_inflight EXCEPT ![src].to = {}]
        /\ UNCHANGED <<hello_sent, macVars, lifeVars>>

NextDsdv ==
    \/ broadcast_hello_packet
    \/ detect_broken_link_periodically
    \/ hello_packet_reception

SpecDsdv == InitDsdv /\ [][NextDsdv]_vars


(***************************************************************************)
(* SpecGreedy.  Four drones that run greedy forwarding: drone 0 has one    *)
(* data packet for drone 3, the two other drones are anywhere on a small   *)
(* grid.  Hellos fill the neighbor tables, a drone may change its    *)
(* position once, and time is counted in sweeps of check_waiting_list.  A  *)
(* copy of the packet is [id, next_hop_id, path]; path is the history of   *)
(* the drones that have held the copy.                                     *)
(***************************************************************************)
GNodes == 0..3
GSource == 0
GDestination == 3
Grid == {<<0, 1, 0>>, <<1, 0, 0>>, <<1, 1, 0>>, <<2, 1, 0>>}
\* where drones 1 and 2 start: a chain to the destination, two drones at
\* one place, and a source without a closer drone in range
Placements == {<<<<1, 1, 0>>, <<1, 0, 0>>>>, <<<<1, 1, 0>>, <<1, 1, 0>>>>,
               <<<<0, 1, 0>>, <<2, 1, 0>>>>}
\* the drones together get at most MaxGreedyHello hellos through
MaxGreedyHello == 2

\* greedy_neighbor_table.py:32, entry_life_time = 1 s, in sweeps of 0.6 s:
\* an entry is expired two sweeps after its update, not one
entry_life_time == 1

\* the DataPacket that drone 0 generates
FirstCopy == [id |-> 1, next_hop_id |-> -1, path |-> <<GSource>>]
NotSending == [copy |-> FirstCopy, attempts |-> 0, stage |-> "idle"]

\* the index of the key in the dictionary, 0 if it is not a key
RECURSIVE KeyIndex(_, _, _)
KeyIndex(tbl, key, i) ==
    IF i > Len(tbl) THEN 0
    ELSE IF tbl[i].id = key THEN i ELSE KeyIndex(tbl, key, i + 1)

\* GreedyNeighborTable.add_neighbor: self.neighbor_table[drone_id] =
\* [position, cur_time]; a new key goes behind the keys of the dictionary,
\* a known key keeps its place
add_neighbor(tbl, drone_id, position, cur_time) ==
    LET entry == [id |-> drone_id, position |-> position, updated |-> cur_time]
        i == KeyIndex(tbl, drone_id, 1)
    IN  IF i = 0 THEN Append(tbl, entry) ELSE [tbl EXCEPT ![i] = entry]

\* a purge that removes an entry at the very end of its lifetime
Stale_AtLifetime(updated_time, t) == updated_time + entry_life_time <= t

\* greedy_neighbor_table.py:83, if updated_time + self.entry_life_time < self.env.now
Stale(updated_time, t) == updated_time + entry_life_time < t

\* GreedyNeighborTable.purge
purge(tbl, t) == SelectSeq(tbl, LAMBDA e : ~Stale(e.updated, t))

\* a comparison that lets a neighbour at the same distance win
Closer_OrEqual(temp_distance, best_distance) == temp_distance <= best_distance

\* greedy_neighbor_table.py:112, if temp_distance < best_distance
Closer(temp_distance, best_distance) == temp_distance < best_distance

\* the for loop of GreedyNeighborTable.best_neighbor from key i on; the
\* distances are compared squared
RECURSIVE BestFrom(_, _, _, _, _)
BestFrom(tbl, i, best_distance, best_id, dst_coords) ==
    IF i > Len(tbl) THEN best_id
    ELSE LET temp_distance == euclidean_distance_3d_sq(tbl[i].position, dst_coords)
         IN  IF Closer(temp_distance, best_distance)
             THEN BestFrom(tbl, i + 1, temp_distance, tbl[i].id, dst_coords)
             ELSE BestFrom(tbl, i + 1, best_distance, best_id, dst_coords)

\* GreedyNeighborTable.best_neighbor
best_neighbor(tbl, my_id, my_coords, dst_coords) ==
    BestFrom(tbl, 1, euclidean_distance_3d_sq(my_coords, dst_coords), my_id, dst_coords)

\* the variables that greedy forwarding leaves alone
greedyFrame == <<evq, mac_protocol, transmission_mode, number_retransmission_attempt,
                 first_attempt_time, ttl, transmitting_start_time, mac_pc, backoff,
                 to_wait, start_time, mac_process_finish, channel_states,
                 wait_ack_pc, wait_ack_process_dict, wait_ack_process_finish,
                 mac_delay, tx_count, fat_writes, hold_since, routing_table,
                 creation_time, overflowed, stray, routing_protocol, deliveryVars,
                 sleep, dsdv_table, hello_inflight, oparVars,
                 prudentVars, otherVars>>

InitGreedy ==
    /\ now = 0
    /\ evq = <<>>
    /\ mac_protocol = "CsmaCa"
    /\ \E c \in Placements :
        LET c1 == c[1]
            c2 == c[2]
        IN
          coords = [n \in GNodes |->
                       IF n = GSource THEN <<0, 0, 0>>
                       ELSE IF n = GDestination THEN <<2, 0, 0>>
                       ELSE IF n = 1 THEN c1 ELSE c2]
    /\ transmitting_queue = [n \in GNodes |-> IF n = GSource THEN <<FirstCopy>> ELSE <<>>]
    /\ transmission_mode = <<>>
    /\ number_retransmission_attempt = <<>>
    /\ first_attempt_time = <<>>
    /\ ttl = <<>>
    /\ transmitting_start_time = <<>>
    /\ mac_pc = <<>>
    /\ backoff = <<>>
    /\ to_wait = <<>>
    /\ start_time = <<>>
    /\ mac_process_finish = <<>>
    /\ channel_states = <<>>
    /\ wait_ack_pc = <<>>
    /\ wait_ack_process_dict = <<>>
    /\ wait_ack_process_finish = <<>>
    /\ mac_delay = <<>>
    /\ datapacket_arrived = {}
    /\ tx_count = <<>>
    /\ fat_writes = <<>>
    /\ hold_since = <<>>
    /\ dropped = {}
    /\ waiting_list = [n \in GNodes |-> <<>>]
    /\ routing_table = <<>>
    /\ creation_time = <<0>>
    /\ in_mac = [n \in GNodes |-> NotSending]
    /\ expired = {}
    /\ overflowed = {}
    /\ stray = 0
    /\ routing_protocol = "Greedy"
    /\ sleep = <<>>
    /\ dsdv_table = <<>>
    /\ hello_inflight = <<>>
    /\ hello_sent = [n \in GNodes |-> [periodic |-> 0, triggered |-> 0]]
    /\ deliver_time_dict = <<>>
    /\ hop_cnt_dict = <<>>
    /\ neighbor_table = [n \in GNodes |-> <<>>]
    /\ moved = FALSE
    /\ OparIdle
    /\ PrudentIdle
    /\ OtherIdle

\* the hello of drone src, greedy.py:53-66, has been on the air:
\* packet_reception of a GreedyHelloPacket, greedy.py:110-112, at the drones
\* in range that got the frame
greedy_hello_reception ==
    \E src \in GNodes \ {GSource} :
        LET got == {m \in GNodes \ {src, GDestination} : InRange(coords, src, m)}
        IN  /\ Sent(GNodes, "periodic") < MaxGreedyHello
            /\ got # {}
            /\ hello_sent' = [hello_sent EXCEPT ![src].periodic = @ + 1]
            /\ neighbor_table' =
                   [m \in GNodes |->
                       IF m \in got
                       THEN add_neighbor(neighbor_table[m], src, coords[src], now)
                       ELSE neighbor_table[m]]
            /\ UNCHANGED <<now, coords, transmitting_queue, waiting_list, in_mac,
                           datapacket_arrived, dropped, expired, moved, greedyFrame>>

\* GaussMarkov3D.mobility_update: a drone between the source and the
\* destination is at another position
mobility_update ==
    \E n \in {1}, c \in Grid :
        /\ ~moved
        /\ c # coords[n]
        /\ coords' = [coords EXCEPT ![n] = c]
        /\ moved' = TRUE
        /\ UNCHANGED <<now, neighbor_table, transmitting_queue, waiting_list, in_mac,
                       datapacket_arrived, dropped, expired, hello_sent, greedyFrame>>

\* Drone.feed_packet with Greedy.next_hop_selection, greedy.py:74-96: the
\* head of the transmit queue gets its next hop and goes to the MAC, or has
\* no route and goes to the waiting list
greedy_next_hop_selection ==
    \E n \in GNodes :
        /\ in_mac[n].stage = "idle"
        /\ transmitting_queue[n] # <<>>
        /\ LET packet == Head(transmitting_queue[n])
               tbl == purge(neighbor_table[n], now)
               best_next_hop_id ==
                   best_neighbor(tbl, n, coords[n], coords[GDestination])
           IN  /\ neighbor_table' = [neighbor_table EXCEPT ![n] = tbl]
               /\ transmitting_queue' = [transmitting_queue EXCEPT ![n] = Tail(@)]
               /\ IF best_next_hop_id = n
                  THEN /\ waiting_list' = [waiting_list EXCEPT ![n] = Append(@, packet)]
                       /\ UNCHANGED in_mac
                  ELSE /\ in_mac' = [in_mac EXCEPT ![n] =
                              [copy |-> [packet EXCEPT !.next_hop_id = best_next_hop_id],
                               attempts |-> 1, stage |-> "tx"]]
                       /\ UNCHANGED waiting_list
        /\ UNCHANGED <<now, coords, datapacket_arrived, dropped, expired, moved,
                       hello_sent, greedyFrame>>

\* one attempt of the MAC of drone n.  The frame reaches the next hop if it
\* is in range and nothing collides: packet_reception of a DataPacket,
\* greedy.py:114-174.  The ACK comes back, or wait_ack times out and the
\* packet is sent again while the counter allows it, csma_ca.py:160-186.
greedy_unicast ==
    \E n \in GNodes :
        /\ in_mac[n].stage = "tx"
        /\ LET copy == in_mac[n].copy
               hop == copy.next_hop_id
               packet_copy == [copy EXCEPT !.path = Append(@, hop)]
           IN  \E outcome \in FrameOutcomes(coords, n, hop), acked \in BOOLEAN :
                  /\ IF outcome = "lost"
                     THEN /\ ~acked
                          /\ UNCHANGED <<datapacket_arrived, transmitting_queue>>
                     ELSE IF hop = GDestination
                     THEN /\ datapacket_arrived' = datapacket_arrived \cup {packet_copy}
                          /\ UNCHANGED transmitting_queue
                     ELSE IF HasCapacity(transmitting_queue[hop])
                     THEN /\ transmitting_queue' =
                                 [transmitting_queue EXCEPT ![hop] = Append(@, packet_copy)]
                          /\ UNCHANGED datapacket_arrived
                     ELSE /\ ~acked
                          /\ UNCHANGED <<datapacket_arrived, transmitting_queue>>
                  /\ IF acked
                     THEN /\ in_mac' = [in_mac EXCEPT ![n] = NotSending]
                          /\ UNCHANGED dropped
                     ELSE IF MayRetransmit(in_mac[n].attempts)
                     THEN /\ in_mac' = [in_mac EXCEPT ![n].attempts = @ + 1]
                          /\ UNCHANGED dropped
                     ELSE /\ in_mac' = [in_mac EXCEPT ![n] = NotSending]
                          /\ dropped' = dropped \cup {<<n, copy>>}
        /\ UNCHANGED <<now, coords, neighbor_table, waiting_list, expired, moved,
                       hello_sent, greedyFrame>>

\* the for loop of Greedy.check_waiting_list, greedy.py:217-227, from
\* position i on; like the loop of DSDV it removes from the list it walks
RECURSIVE GreedySweep(_, _, _, _, _, _)
GreedySweep(i, wl, q, gone, t, has_route) ==
    IF i > Len(wl)
    THEN [wl |-> wl, q |-> q, gone |-> gone]
    ELSE IF DeadlinePassed(t, creation_time[wl[i].id])
         THEN GreedySweep(i + 1, RemoveAt(wl, i), q, gone \cup {wl[i]}, t, has_route)
         ELSE IF has_route
              THEN GreedySweep(i + 1, RemoveAt(wl, i), Append(q, wl[i]), gone, t, has_route)
              ELSE GreedySweep(i + 1, wl, q, gone, t, has_route)

\* Greedy.check_waiting_list, greedy.py:213-229: check_interval has passed
\* and every drone sweeps its waiting list; best_neighbor is asked without
\* a purge of the table
greedy_check_waiting_list ==
    /\ now < SimTime
    /\ now' = now + 1
    /\ LET swept == [n \in GNodes |->
                        GreedySweep(1, waiting_list[n], transmitting_queue[n], {}, now + 1,
                            best_neighbor(neighbor_table[n], n, coords[n],
                                          coords[GDestination]) # n)]
       IN  /\ waiting_list' = [n \in GNodes |-> swept[n].wl]
           /\ transmitting_queue' = [n \in GNodes |-> swept[n].q]
           /\ expired' = expired \cup UNION {swept[n].gone : n \in GNodes}
    /\ UNCHANGED <<coords, neighbor_table, in_mac, datapacket_arrived, dropped, moved,
                   hello_sent, greedyFrame>>

\* static drones
NextGreedy ==
    \/ greedy_hello_reception
    \/ greedy_next_hop_selection
    \/ greedy_unicast
    \/ greedy_check_waiting_list

SpecGreedy == InitGreedy /\ [][NextGreedy]_vars

\* SpecNeighbor: the neighbor tables and the choice of the next hop with a
\* drone that moves; the chosen hop is not followed
NextNeighbor ==
    \/ greedy_hello_reception
    \/ mobility_update
    \/ greedy_next_hop_selection
    \/ greedy_check_waiting_list

SpecNeighbor == InitGreedy /\ [][NextNeighbor]_vars


(***************************************************************************)
(* SpecOpar.  OPAR at the source: drone 0 has a packet for drone 3, and    *)
(* the drones 1 and 2 are each in range of both, so that two paths of two  *)
(* links lead to the destination; drones 1 and 2 may be in range of each   *)
(* other.  The predicted lifetime of every link is an input, counted in    *)
(* units of 1 / PerSecond seconds.                                         *)
(***************************************************************************)
ONodes == 0..3
OSource == 0
ODestination == 3
\* the lifetimes that link_lifetime_predictor returns, from 0.5 s to 2 s
PerSecond == 2
Lifetimes == 1..4
\* np.inf
Infinity == 1000
\* the weights w1 = w2 = 0.5 of the objective, in halves
W1 == 1
W2 == 1

OparLinks == {{0, 1}, {0, 2}, {1, 3}, {2, 3}, {1, 2}}

\* Opar.calculate_cost_matrix, opar.py:58-71
calculate_cost_matrix(links) ==
    [i \in ONodes |-> [j \in ONodes |->
        IF i # j /\ {i, j} \in links THEN 1 ELSE Infinity]]

Plus(a, b) == IF a = Infinity \/ b = Infinity THEN Infinity ELSE a + b

\* min(unvisited_list, key=lambda x: x[1]): the first index of the least value
MinUnvisited(distance_list, visited_list) ==
    CHOOSE k \in ONodes :
        /\ ~visited_list[k]
        /\ \A m \in ONodes :
              ~visited_list[m] =>
                  \/ distance_list[k] < distance_list[m]
                  \/ distance_list[k] = distance_list[m] /\ k <= m

\* the inner loop of Opar.dijkstra, opar.py:97-111, from drone j on: an edge
\* whose lifetime is not above minimum_link_lifetime is removed from the
\* cost matrix, then the edge is relaxed
RECURSIVE Relax(_, _, _, _, _)
Relax(j, u, st, lifetime, minimum_link_lifetime) ==
    IF j \notin ONodes THEN st
    ELSE IF ~st.visited_list[j] /\ st.cost[u][j] # Infinity
    THEN LET cost == IF lifetime[{u, j}] <= minimum_link_lifetime
                     THEN [st.cost EXCEPT ![u][j] = Infinity, ![j][u] = Infinity]
                     ELSE st.cost
             alt == Plus(st.distance_list[u], cost[u][j])
         IN  Relax(j + 1, u,
                   IF alt < st.distance_list[j]
                   THEN [st EXCEPT !.cost = cost, !.distance_list[j] = alt,
                                   !.prev_list[j] = u]
                   ELSE [st EXCEPT !.cost = cost],
                   lifetime, minimum_link_lifetime)
    ELSE Relax(j + 1, u, st, lifetime, minimum_link_lifetime)

\* the outer loop of Opar.dijkstra, opar.py:91-111, i rounds to go
RECURSIVE Visit(_, _, _, _)
Visit(i, st, lifetime, minimum_link_lifetime) ==
    IF i = 0 THEN st
    ELSE LET u == MinUnvisited(st.distance_list, st.visited_list)
         IN  Visit(i - 1,
                   Relax(0, u, [st EXCEPT !.visited_list[u] = TRUE], lifetime,
                         minimum_link_lifetime),
                   lifetime, minimum_link_lifetime)

\* path construction, opar.py:113-124: the path from the destination back;
\* the mark -2 of the source is inserted too, a drone without predecessor
\* (-1) empties the path
RECURSIVE PathBack(_, _, _)
PathBack(prev_list, current_node, path) ==
    IF current_node = -2 THEN path
    ELSE LET before == prev_list[current_node]
         IN  IF before # -1
             THEN PathBack(prev_list, before, <<before>> \o path)
             ELSE <<>>

\* Opar.dijkstra, opar.py:73-126: the path and the cost matrix it leaves
dijkstra(cost, src_id, dst_id, lifetime, minimum_link_lifetime) ==
    LET st == Visit(Cardinality(ONodes),
                    [cost |-> cost,
                     distance_list |-> [n \in ONodes |-> IF n = src_id THEN 0 ELSE Infinity],
                     prev_list |-> [n \in ONodes |-> IF n = src_id THEN -2 ELSE -1],
                     visited_list |-> [n \in ONodes |-> FALSE]],
                    lifetime, minimum_link_lifetime)
    IN  [path |-> PathBack(st.prev_list, dst_id, <<dst_id>>), cost |-> st.cost]

\* opar.py:155-156 and 187-188, if 1/delta_t > t: t = delta_t
WorstLink(t, delta_t) ==
    IF PerSecond * PerSecond > t * delta_t THEN delta_t ELSE t

\* metrics in which the least lifetime of the path is never recorded
PathMetrics_Unset(path, link, lifetime, m) ==
    [total_cost |-> Len(path) - 1, t |-> lifetime[{path[1], path[2]}],
     minimum_link_lifetime |-> 0]

\* the for loop over the links of the path, opar.py:147-159 and 179-191
RECURSIVE PathMetrics(_, _, _, _)
PathMetrics(path, link, lifetime, m) ==
    IF link > Len(path) - 1 THEN m
    ELSE LET delta_t == lifetime[{path[link], path[link + 1]}]
         IN  PathMetrics(path, link + 1, lifetime,
                 [total_cost |-> m.total_cost + 1,
                  t |-> WorstLink(m.t, delta_t),
                  minimum_link_lifetime |->
                      IF delta_t < m.minimum_link_lifetime
                      THEN delta_t ELSE m.minimum_link_lifetime])

NoMetrics == [total_cost |-> 0, t |-> 0, minimum_link_lifetime |-> Infinity]

\* obj = self.w1 * total_cost + self.w2 * t, doubled and in units of
\* 1 / PerSecond
Objective(m) == W1 * PerSecond * m.total_cost + W2 * m.t

\* the while loop of next_hop_selection, opar.py:169-198
RECURSIVE Iterate(_, _, _, _, _)
Iterate(cost, lifetime, minimum_link_lifetime, obj_so_far, path_so_far) ==
    LET found == dijkstra(cost, OSource, ODestination, lifetime, minimum_link_lifetime)
    IN  IF found.path = <<>>
        THEN [cost |-> found.cost, best_obj |-> obj_so_far, best_path |-> path_so_far]
        ELSE LET path == Tail(found.path)
                 m == PathMetrics(path, 1, lifetime, NoMetrics)
             IN  IF Objective(m) < obj_so_far
                 THEN Iterate(found.cost, lifetime, m.minimum_link_lifetime,
                              Objective(m), path)
                 ELSE Iterate(found.cost, lifetime, m.minimum_link_lifetime,
                              obj_so_far, path_so_far)

\* Opar.next_hop_selection at the source, opar.py:132-202
SourceSelection(links, lifetime) ==
    LET first == dijkstra(calculate_cost_matrix(links), OSource, ODestination,
                          lifetime, 0)
    IN  IF first.path = <<>>
        THEN [cost |-> first.cost, best_obj |-> 0,
              best_path |-> <<OSource, OSource>>]
        ELSE LET path == Tail(first.path)
                 m == PathMetrics(path, 1, lifetime, NoMetrics)
             IN  Iterate(first.cost, lifetime, m.minimum_link_lifetime,
                         Objective(m), path)

oparBase == <<now, evq, mac_protocol, coords, transmitting_queue, transmission_mode,
               number_retransmission_attempt, first_attempt_time, ttl,
               transmitting_start_time, mac_pc, backoff, to_wait, start_time,
               mac_process_finish, channel_states, wait_ack_pc,
               wait_ack_process_dict, wait_ack_process_finish, mac_delay,
               datapacket_arrived, tx_count, fat_writes, hold_since, dropped,
               waiting_list, routing_table, creation_time, in_mac, expired,
               overflowed, stray, routing_protocol, deliveryVars, sleep, dsdvVars,
               greedyVars, prudentVars>>
oparFrame == <<oparBase, otherVars>>

\* no other layer is modelled and Opar.__init__ has run, opar.py:45-56; skip
\* names the parts the specification sets itself
InitOparBut(skip) ==
    /\ now = 0
    /\ evq = <<>>
    /\ mac_protocol = "CsmaCa"
    /\ coords = <<>>
    /\ transmitting_queue = <<>>
    /\ transmission_mode = <<>>
    /\ number_retransmission_attempt = <<>>
    /\ first_attempt_time = <<>>
    /\ ttl = <<>>
    /\ transmitting_start_time = <<>>
    /\ mac_pc = <<>>
    /\ backoff = <<>>
    /\ to_wait = <<>>
    /\ start_time = <<>>
    /\ mac_process_finish = <<>>
    /\ channel_states = <<>>
    /\ wait_ack_pc = <<>>
    /\ wait_ack_process_dict = <<>>
    /\ wait_ack_process_finish = <<>>
    /\ mac_delay = <<>>
    /\ datapacket_arrived = {}
    /\ tx_count = <<>>
    /\ fat_writes = <<>>
    /\ hold_since = <<>>
    /\ dropped = {}
    /\ waiting_list = <<>>
    /\ routing_table = <<>>
    /\ creation_time = <<>>
    /\ in_mac = <<>>
    /\ expired = {}
    /\ overflowed = {}
    /\ stray = 0
    /\ routing_protocol = "Opar"
    /\ sleep = <<>>
    /\ dsdv_table = <<>>
    /\ hello_inflight = <<>>
    /\ hello_sent = <<>>
    /\ deliver_time_dict = <<>>
    /\ hop_cnt_dict = <<>>
    /\ GreedyIdle
    /\ PrudentIdle
    /\ OtherIdleBut(skip)
    /\ opar_cost = <<>>
    /\ best_obj = 0
    /\ routing_path = <<>>
    /\ next_hop_id = -1

InitOpar ==
    /\ InitOparBut({})
    /\ \E between \in BOOLEAN :
          in_range = IF between THEN OparLinks ELSE OparLinks \ {{1, 2}}
    /\ link_lifetime \in [OparLinks -> Lifetimes]
    /\ link_lifetime[{1, 2}] = 1

\* Opar.next_hop_selection for the packet of the source, opar.py:128-202
opar_next_hop_selection ==
    /\ routing_path = <<>>
    /\ LET found == SourceSelection(in_range, link_lifetime)
           best_path == Tail(found.best_path)
       IN  /\ opar_cost' = found.cost
           /\ best_obj' = found.best_obj
           /\ routing_path' = best_path
           /\ next_hop_id' = IF best_path[1] = OSource THEN next_hop_id ELSE best_path[1]
    /\ UNCHANGED <<in_range, link_lifetime, oparFrame>>

NextOpar == opar_next_hop_selection

SpecOpar == InitOpar /\ [][NextOpar]_vars


(***************************************************************************)
(* PrudentCaster: the graph of graph.py.  A graph is the set of its edges, *)
(* an edge the set of its two end nodes; the keys of Graph.adjList are the *)
(* nodes that have an edge.  The order of an adjacency list is the one     *)
(* Graph.sort gives it: degree descending, then node id ascending.         *)
(***************************************************************************)
\* Python's None
None == -1
\* the truth value `if x:` gives a node id or None: 0 counts as false
Truthy(x) == x # None /\ x # 0

\* Graph.get_nodes, graph.py:34-35
get_nodes(g) == UNION g
\* Graph.find_neighbor, graph.py:37-39
find_neighbor(g, node) == {v \in UNION g : v # node /\ {node, v} \in g}
\* Graph.add_edge, graph.py:18-25
add_edge(g, v1, v2) == IF v1 = v2 THEN g ELSE g \cup {{v1, v2}}
\* Graph.remove_edge, graph.py:27-32
remove_edge(g, v1, v2) == g \ {{v1, v2}}

\* the sort key of Graph.get_sorted_nodes, graph.py:123-129
SortsBefore(g, a, b) ==
    LET da == Cardinality(find_neighbor(g, a))
        db == Cardinality(find_neighbor(g, b))
    IN  da > db \/ (da = db /\ a < b)

\* Graph.get_sorted_nodes, graph.py:99-136
RECURSIVE get_sorted_nodes(_, _)
get_sorted_nodes(g, nodes) ==
    IF nodes = {} THEN <<>>
    ELSE LET first == CHOOSE a \in nodes :
                          \A b \in nodes \ {a} : SortsBefore(g, a, b)
         IN  <<first>> \o get_sorted_nodes(g, nodes \ {first})

\* self.adjList[node] after Graph.sort, graph.py:93-97
SortedAdj(g, node) == get_sorted_nodes(g, find_neighbor(g, node))

\* Graph.find_child_unconnected, graph.py:138-150
find_child_unconnected(g, node, connected) == find_neighbor(g, node) \ connected

\* the loop of Graph.find_max_connected_neighbor, graph.py:159-168
RECURSIVE MaxConnectedFrom(_, _, _, _, _)
MaxConnectedFrom(g, neighbors, connected, max_connected, max_neighbor) ==
    IF neighbors = <<>> THEN max_neighbor
    ELSE LET neighbor == Head(neighbors)
             connected_count == Cardinality(find_neighbor(g, neighbor) \cap connected)
         IN  IF connected_count > max_connected
             THEN MaxConnectedFrom(g, Tail(neighbors), connected,
                                   connected_count, neighbor)
             ELSE MaxConnectedFrom(g, Tail(neighbors), connected,
                                   max_connected, max_neighbor)

\* Graph.find_max_connected_neighbor, graph.py:152-170
find_max_connected_neighbor(g, node, connected) ==
    MaxConnectedFrom(g, SortedAdj(g, node), connected, -1, None)

\* the inner loop of graph.py:236-243 over the neighbours nn of node
RECURSIVE SelectAmong(_, _, _, _, _)
SelectAmong(g, node, nns, connected, sel) ==
    IF nns = <<>> THEN sel
    ELSE LET nn == Head(nns)
             unconnected_list == find_child_unconnected(g, nn, connected)
         IN  IF nn \notin connected /\ Cardinality(unconnected_list) > sel.max_unconnected
             THEN SelectAmong(g, node, Tail(nns), connected,
                              [max_unconnected |-> Cardinality(unconnected_list),
                               node_selected |-> nn, parent |-> node,
                               node_list |-> unconnected_list])
             ELSE SelectAmong(g, node, Tail(nns), connected, sel)

\* the outer loop of graph.py:234-243 over the neighbours of the root
RECURSIVE SelectTwoHop(_, _, _, _)
SelectTwoHop(g, nodes, connected, sel) ==
    IF nodes = <<>> THEN sel
    ELSE SelectTwoHop(g, Tail(nodes), connected,
                      SelectAmong(g, Head(nodes), SortedAdj(g, Head(nodes)),
                                  connected, sel))

\* graph.py:261-266: the nodes still unconnected, in sorted order
RECURSIVE AttachRest(_, _, _, _)
AttachRest(g, sorted_nodes, tree, connected) ==
    IF sorted_nodes = <<>> THEN tree
    ELSE LET node == Head(sorted_nodes)
             max_neighbor == find_max_connected_neighbor(g, node, connected)
         IN  IF node \notin connected /\ Truthy(max_neighbor)
             THEN AttachRest(g, Tail(sorted_nodes),
                             add_edge(tree, max_neighbor, node),
                             connected \cup {node})
             ELSE AttachRest(g, Tail(sorted_nodes), tree, connected)

\* a tree in which no node counts as a leaf
is_leaf_Never(tree, node) == FALSE

\* Graph.is_leaf, graph.py:83-91, of a tree [root, adjList]
is_leaf(tree, node) ==
    /\ node # tree.root
    /\ Cardinality(find_neighbor(tree.adjList, node)) <= 1

\* Graph.get_leaves, graph.py:74-81
get_leaves(tree) == {node \in get_nodes(tree.adjList) : is_leaf(tree, node)}

\* Graph.get_mlst, graph.py:204-270
get_mlst(g, root) ==
    LET first == find_neighbor(g, root)
        tree1 == {{root, neighbor} : neighbor \in first}
        connected1 == {root} \cup first
        \* the tree once the two-hop selection sel is attached, graph.py:246-266
        Attach(sel) ==
            LET tree2 == IF Truthy(sel.parent) THEN add_edge(tree1, root, sel.parent)
                         ELSE tree1
                connected2 == IF Truthy(sel.parent) THEN connected1 \cup {sel.parent}
                              ELSE connected1
                tree3 == IF Truthy(sel.node_selected)
                         THEN add_edge(tree2, sel.parent, sel.node_selected)
                                  \cup {{sel.node_selected, l} : l \in sel.node_list}
                         ELSE tree2
                connected3 == IF Truthy(sel.node_selected)
                              THEN connected2 \cup {sel.node_selected}
                                              \cup sel.node_list
                              ELSE connected2
            IN  AttachRest(g, get_sorted_nodes(g, get_nodes(g)), tree3, connected3)
        edges == IF Cardinality(connected1) = Cardinality(get_nodes(g))
                 THEN tree1
                 ELSE Attach(SelectTwoHop(g, SortedAdj(g, root), connected1,
                                          [max_unconnected |-> -1,
                                           node_selected |-> None,
                                           parent |-> None, node_list |-> {}]))
        Result(mlstree) == [mlstree |-> mlstree, leaves |-> get_leaves(mlstree)]
    IN  Result([root |-> root, adjList |-> edges])

\* the nodes that a path in g joins to the nodes of seen
RECURSIVE Reachable(_, _)
Reachable(g, seen) ==
    LET more == seen \cup UNION {find_neighbor(g, v) : v \in seen}
    IN  IF more = seen THEN seen ELSE Reachable(g, more)

(***************************************************************************)
(* Specification SpecMlst: Graph.get_mlst is called once, with any root,   *)
(* on any connected graph of 2 to MaxNodes nodes with the ids 0, 1, ...    *)
(***************************************************************************)
MaxNodes == 4

Connected(n) ==
    {g \in SUBSET {{a, b} : a, b \in 0..(n - 1)} :
        /\ \A e \in g : Cardinality(e) = 2
        /\ Reachable(g, {0}) = 0..(n - 1)}

\* every variable of the MAC layer and of the other routing layers
layerBase == <<evq, mac_protocol, transmitting_queue, transmission_mode,
                  number_retransmission_attempt, first_attempt_time, ttl,
                  transmitting_start_time, mac_pc, backoff, to_wait, start_time,
                  mac_process_finish, channel_states, wait_ack_pc,
                  wait_ack_process_dict, wait_ack_process_finish, mac_delay,
                  datapacket_arrived, tx_count, fat_writes, hold_since, dropped,
                  waiting_list, routing_table, creation_time, in_mac, expired,
                  overflowed, stray, routing_protocol, deliveryVars, sleep, dsdvVars,
                  greedyVars, oparVars>>
\* with the parts that are modelled on their own
prudentBase == <<layerBase, otherVars>>
prudentFrame == <<now, coords, prudentBase>>

\* the variables of the three parts of the PrudentCaster model
mlstVars == <<adjList, mlst, leaves>>
pruneVars == <<local_graph, nodeTime, drone_path, data_packet, mlst_calls>>
tdmaVars == <<broadcast_time, hello_count, b_datapacket_arrived, broadcasts,
              edge_refreshed, item_received, item_rebroadcast>>

NoMlst ==
    /\ adjList = {}
    /\ mlst = <<>>
    /\ leaves = {}

NoPruning ==
    /\ local_graph = <<>>
    /\ nodeTime = <<>>
    /\ drone_path = <<>>
    /\ data_packet = <<>>
    /\ mlst_calls = {}

NoTdma ==
    /\ broadcast_time = <<>>
    /\ hello_count = <<>>
    /\ b_datapacket_arrived = <<>>
    /\ broadcasts = {}
    /\ edge_refreshed = <<>>
    /\ item_received = <<>>
    /\ item_rebroadcast = {}

\* no MAC layer and no other routing layer is modelled
NoMacLayer ==
    /\ now = 0
    /\ evq = <<>>
    /\ mac_protocol = "CsmaCa"
    /\ transmitting_queue = <<>>
    /\ transmission_mode = <<>>
    /\ number_retransmission_attempt = <<>>
    /\ first_attempt_time = <<>>
    /\ ttl = <<>>
    /\ transmitting_start_time = <<>>
    /\ mac_pc = <<>>
    /\ backoff = <<>>
    /\ to_wait = <<>>
    /\ start_time = <<>>
    /\ mac_process_finish = <<>>
    /\ channel_states = <<>>
    /\ wait_ack_pc = <<>>
    /\ wait_ack_process_dict = <<>>
    /\ wait_ack_process_finish = <<>>
    /\ mac_delay = <<>>
    /\ datapacket_arrived = {}
    /\ tx_count = <<>>
    /\ fat_writes = <<>>
    /\ hold_since = <<>>
    /\ dropped = {}
    /\ waiting_list = <<>>
    /\ routing_table = <<>>
    /\ creation_time = <<>>
    /\ in_mac = <<>>
    /\ expired = {}
    /\ overflowed = {}
    /\ stray = 0
    /\ routing_protocol = "PrudentCaster"
    /\ sleep = <<>>
    /\ dsdv_table = <<>>
    /\ hello_inflight = <<>>
    /\ hello_sent = <<>>
    /\ deliver_time_dict = <<>>
    /\ hop_cnt_dict = <<>>
    /\ GreedyIdle
    /\ OparIdle

InitMlst ==
    /\ NoMacLayer
    /\ OtherIdle
    /\ coords = <<>>
    /\ \E n \in 2..MaxNodes : adjList \in Connected(n)
    /\ mlst = <<>>
    /\ leaves = {}
    /\ NoPruning
    /\ NoTdma

\* mlst, leaves = graph.get_mlst(root), graph.py:204-270
call_get_mlst ==
    /\ mlst = <<>>
    /\ \E root \in get_nodes(adjList) :
          LET built == get_mlst(adjList, root)
          IN  /\ mlst' = built.mlstree
              /\ leaves' = built.leaves
    /\ UNCHANGED <<adjList, pruneVars, tdmaVars, prudentFrame>>

NextMlst == call_get_mlst

SpecMlst == InitMlst /\ [][NextMlst]_vars


(***************************************************************************)
(* PrudentCaster in MLST-prune mode (DATA_BROADCAST_TYPE = 2): which of    *)
(* the buffered items a drone puts into its outgoing PrudentDataPacket.    *)
(* Time is counted in half broadcast slots.                                *)
(***************************************************************************)
\* config.BROADCAST_SLOT, in half slots
BROADCAST_SLOT == 2

\* the breadth-first search of Graph.get_subgraph_within_hops,
\* graph.py:186-200: the entries of the queue with the same hop count
RECURSIVE WithinHops(_, _, _, _, _)
WithinHops(g, current_nodes, hops, max_hops, subgraph) ==
    IF hops >= max_hops \/ current_nodes = {} THEN subgraph
    ELSE LET added == {e \in g : e \cap current_nodes # {}} \ subgraph
             queued == {neighbor \in UNION added :
                           \E current_node \in current_nodes :
                               {current_node, neighbor} \in added}
         IN  WithinHops(g, queued, hops + 1, max_hops, subgraph \cup added)

\* Graph.get_subgraph_within_hops, graph.py:172-202
get_subgraph_within_hops(g, start_node, max_hops) ==
    WithinHops(g, {start_node}, 0, max_hops, {})

\* Graph.path_exists_in_tree, graph.py:41-59
RECURSIVE path_exists_in_tree(_, _, _)
path_exists_in_tree(tree, current_node, path) ==
    IF path[1] # current_node THEN FALSE
    ELSE IF Len(path) = 1 THEN TRUE
    ELSE IF path[2] \notin find_neighbor(tree.adjList, current_node) THEN FALSE
    ELSE path_exists_in_tree(tree, path[2], Tail(path))

\* Graph.path_exists, graph.py:61-72
path_exists(tree, path) ==
    IF tree.root # None THEN path_exists_in_tree(tree, tree.root, path)
    ELSE \A i \in 1..(Len(path) - 1) :
             path[i + 1] \in find_neighbor(tree.adjList, path[i])

\* src_drone = path[-1], prudent_caster.py:219-220: the node around which
\* the 2-hop subgraph is extracted
SubgraphCentre(path) == path[Len(path)]
\* prev_drone = path[0], prudent_caster.py:224 and 230: the root of the MLST
MlstRoot(path) == path[1]
\* the loop test of prudent_caster.py:227
IsLoop_Never(path, my_id) == FALSE
IsLoop(path, my_id) == MlstRoot(path) = my_id

\* PrudentCaster.check_add_drone_packets, prudent_caster.py:217-238
RECURSIVE check_add_drone_packets(_, _, _, _)
check_add_drone_packets(g, my_id, paths, calls) ==
    IF paths = <<>> THEN [add |-> FALSE, prev |-> None, calls |-> calls]
    ELSE LET path == Head(paths)
             src_drone == SubgraphCentre(path)
             prev_drone == MlstRoot(path)
             new_path == Append(path, my_id)
             \* the test of prudent_caster.py:233 on the tree of get_mlst
             Test(tree) ==
                 LET called == calls \cup {[path |-> path, centre |-> src_drone,
                                            root |-> prev_drone,
                                            leaf |-> is_leaf(tree, my_id)]}
                 IN  IF ~is_leaf(tree, my_id) /\ path_exists(tree, new_path)
                     THEN [add |-> TRUE, prev |-> src_drone, calls |-> called]
                     ELSE check_add_drone_packets(g, my_id, Tail(paths), called)
         IN  IF IsLoop(path, my_id)
             THEN check_add_drone_packets(g, my_id, Tail(paths), calls)
             ELSE Test(get_mlst(get_subgraph_within_hops(g, src_drone, 2),
                                prev_drone).mlstree)

\* the drones that take part
NUMBER_OF_DRONES == Cardinality(DOMAIN local_graph)

\* PrudentCaster.update_local_graph, prudent_caster.py:342-346
update_local_graph(my_id, t) ==
    LET framesize == BROADCAST_SLOT * NUMBER_OF_DRONES
        stale == {node \in DOMAIN nodeTime[my_id] :
                     t - nodeTime[my_id][node] > 2 * framesize}
    IN  local_graph[my_id] \ {{my_id, node} : node \in stale}

\* GLOBAL_PRUDENT_DATA_PACKET_ID, prudent_caster.py:13 and 165: the id of
\* the data packet generated last
GLOBAL_PRUDENT_DATA_PACKET_ID ==
    IF data_packet = <<>> THEN 0 ELSE data_packet.packet_id

\* PrudentCaster.generate_broadcast_data_packet, prudent_caster.py:157-204,
\* with DATA_BROADCAST_TYPE = 2: the local graph it leaves, the packet it
\* returns and the get_mlst calls it has made
generate_broadcast_data_packet(my_id, t) ==
    LET g == update_local_graph(my_id, t)
        Made(checks) ==
            [local_graph |-> g,
             data_packet |-> [src_drone |-> my_id,
                              packet_id |-> GLOBAL_PRUDENT_DATA_PACKET_ID + 1,
                              drone_packets |->
                                  {[key |-> key, prev_drone |-> checks[key].prev] :
                                       key \in {k \in DOMAIN checks : checks[k].add}}],
             calls |-> UNION {checks[key].calls : key \in DOMAIN checks}]
    IN  Made([key \in DOMAIN drone_path[my_id] |->
                 check_add_drone_packets(g, my_id, drone_path[my_id][key], {})])

\* PrudentCaster.check_random_send, prudent_caster.py:240-249: what
\* `r < most_prob` can give for a draw r of [0.0, 1.0); g is the local graph
GossipOutcomes(g, paths) ==
    IF \E j \in 1..Len(paths) :
          Cardinality(find_neighbor(g, paths[j][Len(paths[j])])) = 1
    THEN {TRUE}
    ELSE BOOLEAN

\* the outcomes of check_random_send for the items drone my_id has buffered
GossipDraws(g, my_id, type) ==
    IF type = 1
    THEN {draws \in [DOMAIN drone_path[my_id] -> BOOLEAN] :
             \A key \in DOMAIN drone_path[my_id] :
                 draws[key] \in GossipOutcomes(g, drone_path[my_id][key])}
    ELSE {[key \in DOMAIN drone_path[my_id] |-> TRUE]}

\* PrudentCaster.generate_broadcast_data_packet, prudent_caster.py:157-204,
\* for each DATA_BROADCAST_TYPE: 0 takes every buffered item, 1 the items
\* check_random_send draws, 2 the items check_add_drone_packets admits.
\* With 0 and 1 the item keeps the prev_drone of the packet stored last
generate_by_type(my_id, t, type, draws) ==
    IF type = 2
    THEN generate_broadcast_data_packet(my_id, t)
    ELSE [local_graph |-> update_local_graph(my_id, t),
          data_packet |-> [src_drone |-> my_id,
                           packet_id |-> GLOBAL_PRUDENT_DATA_PACKET_ID + 1,
                           drone_packets |->
                               {[key |-> key,
                                 prev_drone |->
                                     drone_path[my_id][key][Len(drone_path[my_id][key])][1]] :
                                    key \in {k \in DOMAIN drone_path[my_id] :
                                                type = 0 \/ draws[k]}}],
          calls |-> {}]

(***************************************************************************)
(* Specification SpecPrune: a drone that has one item buffered, with one   *)
(* or two arrival paths, and any local graph of the nodes PruneNodes       *)
(* generates its data packet.                                              *)
(***************************************************************************)
PruneNodes == 0..3

\* the paths update_packets records for an item of drone o at drone my_id:
\* [o] when o itself sent it, [prev, neighbor] when neighbor forwarded it
ArrivalPaths(my_id, o) ==
    {<<o>>} \cup {path \in PruneNodes \X (PruneNodes \ {my_id}) :
                      path[1] # path[2]}

InitPrune ==
    /\ NoMacLayer
    /\ OtherIdle
    /\ coords = <<>>
    /\ NoMlst
    /\ NoTdma
    /\ \E my_id \in PruneNodes :
          /\ \E g \in SUBSET {{a, b} : a, b \in PruneNodes} :
                /\ \A e \in g : Cardinality(e) = 2
                /\ local_graph = [d \in {my_id} |-> g]
          /\ nodeTime = [d \in {my_id} |->
                            [node \in find_neighbor(local_graph[my_id], my_id) |-> 0]]
          /\ \E o \in PruneNodes \ {my_id} :
                \E p1, p2 \in ArrivalPaths(my_id, o) :
                    drone_path = [d \in {my_id} |->
                        [key \in {<<o, 1>>} |->
                            IF p1 = p2 THEN <<p1>> ELSE <<p1, p2>>]]
    /\ data_packet = <<>>
    /\ mlst_calls = {}

\* data_packet = self.generate_broadcast_data_packet(), prudent_caster.py:207
prune_generate ==
    /\ data_packet = <<>>
    /\ \E my_id \in DOMAIN drone_path :
          LET Take(made) ==
                  /\ local_graph' = [local_graph EXCEPT ![my_id] = made.local_graph]
                  /\ data_packet' = made.data_packet
                  /\ mlst_calls' = made.calls
                  /\ drone_path' = [drone_path EXCEPT ![my_id] = <<>>]
          IN  Take(generate_broadcast_data_packet(my_id, now))
    /\ UNCHANGED <<nodeTime, mlstVars, tdmaVars, prudentFrame>>

NextPrune == prune_generate

SpecPrune == InitPrune /\ [][NextPrune]_vars


(***************************************************************************)
(* PrudentCaster on the TDMA schedule: every drone broadcasts a hello, and *)
(* with every tenth hello a data packet, once per frame in its own slot.   *)
(* The drones stand on a line, coords[d] = <<x, 0, 0>>.  A packet reaches  *)
(* the drones in broadcast range while the sender is in its slot.          *)
(***************************************************************************)
\* config.BROADCAST_RANGE
BROADCAST_RANGE == 1
\* prudent_caster.py:115, a data packet with every tenth hello
HellosPerData == 10

\* frame_size = slot * num_nodes, prudent_caster.py:80
frame_size == BROADCAST_SLOT * NUMBER_OF_DRONES
\* max_delay = slot * 0.5, prudent_caster.py:83
max_delay == BROADCAST_SLOT \div 2

\* the first broadcast_time of drone my_id, from env.now = current and a
\* draw of the random generator, prudent_caster.py:86-95
first_broadcast(my_id, current, n, drawn) ==
    LET frame_start == (current \div (BROADCAST_SLOT * n)) * (BROADCAST_SLOT * n)
        my_slot_start == frame_start + my_id * BROADCAST_SLOT
    IN  (IF current > my_slot_start + max_delay
         THEN my_slot_start + BROADCAST_SLOT * n
         ELSE my_slot_start) + drawn

\* next_broadcast = broadcast_time + frame_size, prudent_caster.py:102
next_broadcast_Late(time, frame) == time + frame + 1
next_broadcast(time, frame) == time + frame

\* the drones send_hello_broadcast and send_data_broadcast address,
\* prudent_caster.py:119-141
InBroadcastRange(my_id) ==
    {d \in DOMAIN coords \ {my_id} :
        euclidean_distance_3d_sq(coords[my_id], coords[d])
            <= BROADCAST_RANGE * BROADCAST_RANGE}

\* adjs of broadcast_hello_packet, prudent_caster.py:58-61
HelloNeighbors(g, my_id) ==
    [n \in find_neighbor(g, my_id) |-> find_neighbor(g, n)]

\* the edges packet_reception adds for a hello, prudent_caster.py:265-273
HelloEdges(my_id, neighbor, neighbors) ==
    {e \in {{my_id, neighbor}}
           \cup {{neighbor, n} : n \in DOMAIN neighbors}
           \cup UNION {{{n, pn} : pn \in neighbors[n]} : n \in DOMAIN neighbors} :
        Cardinality(e) = 2}

\* a function with the value v at the key k
Put(f, k, v) == [x \in DOMAIN f \cup {k} |-> IF x = k THEN v ELSE f[x]]

\* PrudentCaster.update_packets, prudent_caster.py:323-329, for each of the
\* items: the paths are appended under the key of the item
RECURSIVE update_packets(_, _)
update_packets(dp, items) ==
    IF items = {} THEN dp
    ELSE LET item == CHOOSE x \in items : TRUE
             queue == IF item.key \in DOMAIN dp THEN dp[item.key] ELSE <<>>
         IN  update_packets(Put(dp, item.key, Append(queue, item.path)),
                            items \ {item})

\* the items packet_reception buffers at drone my_id for a data packet,
\* prudent_caster.py:275-302: the packet itself and each carried item that
\* is not of my_id
ItemsOf(my_id, packet) ==
    {[key |-> <<packet.src_drone, packet.packet_id>>, path |-> <<packet.src_drone>>]}
    \cup {[key |-> p.key, path |-> <<p.prev_drone, packet.src_drone>>] :
             p \in {q \in packet.drone_packets : q.key[1] # my_id}}

\* the ids calc_metrics is called with, prudent_caster.py:291 and 296
IdsOf(packet) == {packet.packet_id} \cup {p.key[2] : p \in packet.drone_packets}

RECURSIVE SumOf(_, _)
SumOf(f, keys) ==
    IF keys = {} THEN 0
    ELSE LET k == CHOOSE x \in keys : TRUE IN f[k] + SumOf(f, keys \ {k})

\* PrudentCaster.broadcast_packet of drone i at the time t,
\* prudent_caster.py:112-116, with the receptions of its packets,
\* prudent_caster.py:253-302
broadcast_packet(i, t) ==
    LET g == update_local_graph(i, t)
        hello == HelloNeighbors(g, i)
        heard == InBroadcastRange(i)
        count == hello_count[i] + 1
        \* config.GL_ID_HELLO_PACKET - config.GL_ID_HELLO_PACKET_START
        hellos == SumOf(hello_count, DOMAIN hello_count) + 1
        data == hellos > NUMBER_OF_DRONES + 1 /\ count % HellosPerData = 0
        \* the data packet made is sent and received
        Data(made) ==
            LET items(d) == ItemsOf(d, made.data_packet)
            IN  /\ data_packet' = made.data_packet
                /\ mlst_calls' = made.calls
                /\ drone_path' = [d \in DOMAIN drone_path |->
                      IF d = i THEN <<>>
                      ELSE IF d \in heard THEN update_packets(drone_path[d], items(d))
                      ELSE drone_path[d]]
                /\ b_datapacket_arrived' = [d \in DOMAIN b_datapacket_arrived |->
                      IF d = i
                      THEN b_datapacket_arrived[d] \cup {made.data_packet.packet_id}
                      ELSE IF d \in heard
                      THEN b_datapacket_arrived[d] \cup IdsOf(made.data_packet)
                      ELSE b_datapacket_arrived[d]]
                /\ item_received' = [d \in DOMAIN item_received |->
                      IF d \in heard
                      THEN [key \in DOMAIN item_received[d]
                                       \cup {x.key : x \in items(d)} |->
                               (IF key \in DOMAIN item_received[d]
                                THEN item_received[d][key] ELSE 0)
                               + (IF key \in {x.key : x \in items(d)} THEN 1 ELSE 0)]
                      ELSE item_received[d]]
                /\ item_rebroadcast' = item_rebroadcast
                      \cup {<<i, p.key>> : p \in made.data_packet.drone_packets}
    IN  /\ hello_count' = [hello_count EXCEPT ![i] = count]
        /\ local_graph' = [d \in DOMAIN local_graph |->
              IF d = i THEN g
              ELSE IF d \in heard
              THEN local_graph[d] \cup HelloEdges(d, i, hello)
              ELSE local_graph[d]]
        /\ nodeTime' = [d \in DOMAIN nodeTime |->
              IF d \in heard THEN Put(nodeTime[d], i, t) ELSE nodeTime[d]]
        /\ edge_refreshed' = [d \in DOMAIN edge_refreshed |->
              IF d \in heard
              THEN [e \in DOMAIN edge_refreshed[d] \cup HelloEdges(d, i, hello) |->
                       IF e \in HelloEdges(d, i, hello) THEN t
                       ELSE edge_refreshed[d][e]]
              ELSE edge_refreshed[d]]
        /\ IF data
           THEN \E draws \in GossipDraws(g, i, data_broadcast_type) :
                    Data(generate_by_type(i, t, data_broadcast_type, draws))
           ELSE UNCHANGED <<data_packet, mlst_calls, drone_path,
                            b_datapacket_arrived, item_received, item_rebroadcast>>

\* one round of the loop of broadcast_packet_periodically,
\* prudent_caster.py:96-110: the drone whose timeout is the next to expire
\* broadcasts and sets the time of its next broadcast
tdma_broadcast(frames) ==
    \E i \in DOMAIN broadcast_time :
        /\ \A j \in DOMAIN broadcast_time : broadcast_time[i] <= broadcast_time[j]
        /\ broadcast_time[i] < frames * frame_size
        /\ LET t == IF now < broadcast_time[i] THEN broadcast_time[i] ELSE now
           IN  /\ now' = t
               /\ broadcast_packet(i, t)
               /\ broadcasts' = broadcasts \cup {[drone |-> i, time |-> t]}
        /\ broadcast_time' = [broadcast_time EXCEPT
                                 ![i] = next_broadcast(broadcast_time[i], frame_size)]
        /\ UNCHANGED <<coords, mlstVars, prudentBase>>

\* the drones at the places xs, started at env.now = 0; skip names the
\* parts the specification sets itself
InitTdmaBut(xs, skip) ==
    /\ NoMacLayer
    /\ OtherIdleBut(skip)
    /\ NoMlst
    /\ coords = [d \in DOMAIN xs |-> <<xs[d], 0, 0>>]
    /\ local_graph = [d \in DOMAIN xs |-> {}]
    /\ nodeTime = [d \in DOMAIN xs |-> <<>>]
    /\ drone_path = [d \in DOMAIN xs |-> <<>>]
    /\ data_packet = <<>>
    /\ mlst_calls = {}
    /\ \E drawn \in [DOMAIN xs -> 0..max_delay] :
          broadcast_time = [d \in DOMAIN xs |->
                               first_broadcast(d, 0, Cardinality(DOMAIN xs), drawn[d])]
    /\ hello_count = [d \in DOMAIN xs |-> 0]
    /\ b_datapacket_arrived = [d \in DOMAIN xs |-> {}]
    /\ broadcasts = {}
    /\ edge_refreshed = [d \in DOMAIN xs |-> <<>>]
    /\ item_received = [d \in DOMAIN xs |-> <<>>]
    /\ item_rebroadcast = {}

InitTdma(xs) == InitTdmaBut(xs, {})

(***************************************************************************)
(* Specification SpecHello: three drones in a row exchange hellos for      *)
(* MaxFrames frames; the drone at the end moves out of range at any time.  *)
(***************************************************************************)
MaxFrames == 6
HelloDrones == 0..2
Away == 4

InitHello == InitTdma([d \in HelloDrones |-> d])

\* the mobility model takes the last drone out of the range of the others
leave_range ==
    /\ coords[2] # <<Away, 0, 0>>
    /\ coords' = [coords EXCEPT ![2] = <<Away, 0, 0>>]
    /\ UNCHANGED <<now, mlstVars, pruneVars, tdmaVars, prudentBase>>

NextHello == tdma_broadcast(MaxFrames) \/ leave_range

SpecHello == InitHello /\ [][NextHello]_vars

(***************************************************************************)
(* Specification SpecChain: five static drones in a row, each in range of  *)
(* its neighbours in the row only, in MLST-prune mode for ChainFrames      *)
(* frames.                                                                 *)
(***************************************************************************)
ChainFrames == 40
ChainDrones == 0..4

InitChain == InitTdma([d \in ChainDrones |-> d])

NextChain == tdma_broadcast(ChainFrames)

SpecChain == InitChain /\ [][NextChain]_vars


(***************************************************************************)
(* Random generators.  A generator is its state, a number of RngStates;    *)
(* a draw advances the state and derives the value from the new state, so  *)
(* that two generators in one state draw the same values.                  *)
(***************************************************************************)
RngStates == 0..15

\* random.Random(k): the state is set by the seed k alone
Random(k) == k % Cardinality(RngStates)

\* the state after one draw
Advance(state) == (5 * state + 3) % Cardinality(RngStates)

\* randint(a, b) on the generator in the state given: the value and the
\* state left
randint(state, a, b) ==
    [value |-> a + (Advance(state) % (b - a + 1)), state |-> Advance(state)]

\* the offsets of the seeds of the generators of a drone: csma_ca.py:57,
\* dsdv.py:43
MacSeedOffset == 5
RoutingSeedOffset == 10

\* start_coords.py:22 and 38-39, 55: min_distance, cube_size, comm_range
\* and max_attempts, on one axis
min_distance == 2
cube_size == 8
comm_range == 3
max_attempts == 2

\* np.clip(new_pos, 0, cube_size)
clip(x, lo, hi) == IF x < lo THEN lo ELSE IF x > hi THEN hi ELSE x

Distance(a, b) == IF a < b THEN b - a ELSE a - b

\* the loop of start_coords.py:57-90 for drone i with the reference
\* position ref_pos, and the fallback of start_coords.py:92-98; every
\* draw is one of the module-level generator of random, in the state g
RECURSIVE PlaceDrone(_, _, _, _, _)
PlaceDrone(g, positions, i, ref_pos, attempts) ==
    IF attempts >= max_attempts
    THEN LET fall == randint(g, 0 - 1, 1)
         IN  [positions |-> Append(positions, (cube_size \div 2) + fall.value),
              state |-> fall.state]
    ELSE LET theta == randint(g, 0, 1)
             phi == randint(theta.state, 0, 1)
             dist == randint(phi.state, min_distance, comm_range)
             new_pos == clip(ref_pos + (IF theta.value = 0 THEN 0 - dist.value
                                        ELSE dist.value), 0, cube_size)
             too_close == \E j \in 1..Len(positions) :
                              Distance(new_pos, positions[j]) < min_distance
         IN  IF too_close
             THEN PlaceDrone(dist.state, positions, i, ref_pos, attempts + 1)
             ELSE [positions |-> Append(positions, new_pos), state |-> dist.state]

\* start_coords.generate_connected_drones, start_coords.py:22-100, for
\* num_drones drones: drone i is the element i + 1 of positions
RECURSIVE PlaceFrom(_, _, _, _)
PlaceFrom(g, positions, i, num_drones) ==
    IF i >= num_drones THEN [positions |-> positions, state |-> g]
    ELSE LET ref_idx == randint(g, 0, i - 1)
             Placed(placed) == PlaceFrom(placed.state, placed.positions, i + 1,
                                         num_drones)
         IN  Placed(PlaceDrone(ref_idx.state, positions, i,
                               positions[ref_idx.value + 1], 0))

generate_connected_drones(g, num_drones) ==
    PlaceFrom(g, <<cube_size \div 2>>, 1, num_drones)

\* PrudentCaster.check_random_send, prudent_caster.py:240-249, with the
\* largest 1 / len(slibings) of the paths being 1 / siblings: the value of
\* random.random() is state / |RngStates| of the module-level generator
check_random_send(g, siblings) ==
    [value |-> Advance(g) * siblings < Cardinality(RngStates), state |-> Advance(g)]

(***************************************************************************)
(* Specification SpecSeed: two runs of the simulator that are given the    *)
(* same seed and the same configuration, side by side.  Each step is the   *)
(* same operation in both runs.  The module-level generator of random is   *)
(* seeded by nothing in the code: its state at the start of a run is any   *)
(* state.                                                                  *)
(***************************************************************************)
Seeds == 0..1
SeedDrones == 0..2
Runs == 1..2
MaxDraws == 2

\* Simulator.__init__, simulator.py:31-54, and the generators the MAC and
\* the routing layer of each drone create
Simulator(seed, entropy) ==
    LET Built(start) ==
            [seed |-> seed,
             random |-> start.state,
             start_position |-> start.positions,
             rng_mac |-> [d \in SeedDrones |-> Random(d + seed + MacSeedOffset)],
             rng_routing |-> [d \in SeedDrones |->
                                 Random(d + seed + RoutingSeedOffset)],
             draws |-> <<>>]
    IN  Built(generate_connected_drones(entropy, Cardinality(SeedDrones)))

InitSeed ==
    /\ NoMacLayer
    /\ coords = <<>>
    /\ NoMlst
    /\ NoPruning
    /\ NoTdma
    /\ OtherIdleBut({"seed"})
    /\ \E seed \in Seeds :
          \E entropy \in [Runs -> RngStates] :
              run = [r \in Runs |-> Simulator(seed, entropy[r])]

\* every variable but those of the parts that are modelled on their own
apartFrame == <<now, coords, mlstVars, pruneVars, tdmaVars, layerBase>>

CanDraw == \A r \in Runs : Len(run[r].draws) < MaxDraws

\* csma_ca.py:78: the backoff of the first attempt of drone d
draw_backoff(d) ==
    /\ CanDraw
    /\ run' = [r \in Runs |->
          LET Drawn(b) ==
                  [run[r] EXCEPT !.rng_mac[d] = b.state,
                                 !.draws = Append(@, <<"backoff", d, b.value>>)]
          IN  Drawn(randint(run[r].rng_mac[d], 0, contention_window(1) - 1))]
    /\ UNCHANGED <<apartFrame, butSeed>>

\* dsdv.py:100, greedy.py:71: the jitter of a hello of drone d, in ms
draw_jitter(d) ==
    /\ CanDraw
    /\ run' = [r \in Runs |->
          LET Drawn(j) ==
                  [run[r] EXCEPT !.rng_routing[d] = j.state,
                                 !.draws = Append(@, <<"jitter", d, j.value>>)]
          IN  Drawn(randint(run[r].rng_routing[d], 1, 2))]
    /\ UNCHANGED <<apartFrame, butSeed>>

\* prudent_caster.py:248: the gossip decision of drone d for an item whose
\* source has the given number of neighbours
draw_gossip(d, siblings) ==
    /\ CanDraw
    /\ run' = [r \in Runs |->
          LET Drawn(c) ==
                  [run[r] EXCEPT !.random = c.state,
                                 !.draws = Append(@, <<"gossip", d, c.value>>)]
          IN  Drawn(check_random_send(run[r].random, siblings))]
    /\ UNCHANGED <<apartFrame, butSeed>>

NextSeed ==
    \E d \in SeedDrones :
        \/ draw_backoff(d)
        \/ draw_jitter(d)
        \/ \E siblings \in 1..2 : draw_gossip(d, siblings)

SpecSeed == InitSeed /\ [][NextSeed]_vars

(***************************************************************************)
(* Gauss-Markov mobility, gauss_markov_3d.py.  Lengths are whole numbers;  *)
(* a velocity is the distance covered in one position_update_interval.     *)
(***************************************************************************)
\* the buffer zones b1, b2, b3, gauss_markov_3d.py:50-52
b_1 == 1
b_2 == 1
b_3 == 1
BufferZone == <<b_1, b_2, b_3>>

\* simulator.drone_range, gauss_markov_3d.py:54-61: min and max of the axes
MapMin == 0
MapMax == 3
\* the ticks between two direction updates, gauss_markov_3d.py:45-46
DirectionEvery == 5

Axes == 1..3
Low(axis) == MapMin + BufferZone[axis]
High(axis) == MapMax - BufferZone[axis]

\* gauss_markov_3d.py:181, 184, 187: the test of one axis
Outside_BelowOnly(x, axis) == x < Low(axis)
Outside(x, axis) == x < Low(axis) \/ x > High(axis)

Max(a, b) == IF a > b THEN a ELSE b
Min(a, b) == IF a < b THEN a ELSE b

\* GaussMarkov3D.boundary_test, gauss_markov_3d.py:180-198: the position
\* and the velocity it returns
boundary_test(pos, vel) ==
    [next_position |-> [a \in Axes |-> Max(Low(a), Min(pos[a], High(a)))],
     next_velocity |-> [a \in Axes |-> IF Outside(pos[a], a) THEN 0 - vel[a]
                                       ELSE vel[a]]]

\* the speeds of an axis
Speeds == (0 - 1)..1
\* the velocities the direction update can compute, gauss_markov_3d.py:104-118:
\* a drone at rest stays at rest, any other gets a velocity that the draws
\* of normalvariate decide
DirectionUpdate(vel) ==
    IF vel = <<0, 0, 0>> THEN {<<0, 0, 0>>} ELSE Speeds \X Speeds \X Speeds

(***************************************************************************)
(* Specification SpecGm: drone 0 starts anywhere in the map with any       *)
(* velocity and its mobility process ticks GmTicks times.                  *)
(***************************************************************************)
GmTicks == 6

InitGm ==
    /\ NoMacLayer
    /\ NoMlst
    /\ NoPruning
    /\ NoTdma
    /\ OtherIdleBut({"gm"})
    /\ \E pos \in (MapMin..MapMax) \X (MapMin..MapMax) \X (MapMin..MapMax) :
          coords = [d \in {0} |-> pos]
    /\ velocity \in Speeds \X Speeds \X Speeds
    /\ next_position = <<>>
    /\ next_velocity = <<>>

\* one round of the loop of GaussMarkov3D.mobility_update with
\* config.STATIC_CASE = 0, gauss_markov_3d.py:76-147; now counts the ticks
gm_mobility_update ==
    /\ now < GmTicks
    /\ \E vel \in (IF now % DirectionEvery = 0 THEN DirectionUpdate(velocity)
                   ELSE {velocity}) :
          LET pos == [a \in Axes |-> coords[0][a] + velocity[a]]
              Tested(t) ==
                  /\ coords' = [coords EXCEPT ![0] = t.next_position]
                  /\ velocity' = t.next_velocity
          IN  /\ next_position' = pos
              /\ next_velocity' = vel
              /\ Tested(boundary_test(pos, vel))
    /\ now' = now + 1
    /\ UNCHANGED <<mlstVars, pruneVars, tdmaVars, layerBase, butGm>>

NextGm == gm_mobility_update

SpecGm == InitGm /\ [][NextGm]_vars

(***************************************************************************)
(* The way of one OPAR data packet from its source over relays: the packet *)
(* objects and the list objects their routing_path attributes refer to.   *)
(* copy.copy(packet), opar.py:235, makes a new packet object whose         *)
(* attributes refer to the same objects as the original's: the copy and   *)
(* the original share one routing_path list.                              *)
(***************************************************************************)

\* the paths Opar.dijkstra can return at the source, from OSource to
\* ODestination over relays 1 and 2
SourcePaths == {<<0, 3>>, <<0, 1, 3>>, <<0, 2, 3>>, <<0, 1, 2, 3>>, <<0, 2, 1, 3>>}
RelayNodes == 0..3

\* a MAC that sends nothing
MacIdle(attempts) == [pkd |-> None, stage |-> "idle", ack |-> FALSE, attempts |-> attempts]

\* copy.copy(packet), opar.py:235: a new object with the attributes of the
\* old one, the routing_path attribute still naming the same list object
shallow_copy(pkt) == pkt

\* next_hop_selection at the source, opar.py:196-202 and 215-220: the best
\* path loses its head, is attached to the packet, and its new head is the
\* next hop.  lists are the list objects, pkt the packet object
source_next_hop_selection(lists, pkt, path, my_id) ==
    LET best_path == Tail(path)
        best_next_hop_id == best_path[1]
    IN  [lists |-> Append(lists, best_path),
         packet |-> IF best_next_hop_id = my_id
                    THEN [pkt EXCEPT !.routing_path = Len(lists) + 1]
                    ELSE [pkt EXCEPT !.routing_path = Len(lists) + 1,
                                     !.next_hop_id = best_next_hop_id],
         has_route |-> best_next_hop_id # my_id]

\* next_hop_selection at a relay, opar.py:204-220: routing_path.pop(0) works
\* on the list object itself
relay_next_hop_selection(lists, pkt, my_id) ==
    LET attached == lists[pkt.routing_path]
        popped == Tail(attached)
        best_next_hop_id == IF Len(attached) > 1 THEN popped[1] ELSE my_id
    IN  [lists |-> IF Len(attached) > 1
                   THEN [lists EXCEPT ![pkt.routing_path] = popped]
                   ELSE lists,
         packet |-> IF best_next_hop_id = my_id
                    THEN pkt
                    ELSE [pkt EXCEPT !.next_hop_id = best_next_hop_id],
         has_route |-> best_next_hop_id # my_id]

\* the for loop of Opar.check_waiting_list, opar.py:332-341, from position i
\* on, for packets within their deadline: next_hop_selection returns a
\* tuple, which never equals the identifier, so every packet visited goes
\* back to the transmit queue; the loop walks by position while its body
\* removes, as in Sweep
RECURSIVE OparSweep(_, _, _, _, _, _)
OparSweep(i, wl, q, lists, objs, my_id) ==
    IF i > Len(wl)
    THEN [wl |-> wl, q |-> q, lists |-> lists, objs |-> objs]
    ELSE LET Selected(sel) ==
                 OparSweep(i + 1, RemoveAt(wl, i), Append(q, wl[i]), sel.lists,
                           [objs EXCEPT ![wl[i]] = sel.packet], my_id)
         IN  Selected(relay_next_hop_selection(lists, objs[wl[i]], my_id))

\* one drone is the source with the packet in its transmit queue
InitRelay ==
    /\ NoMacLayer
    /\ coords = <<>>
    /\ NoMlst
    /\ NoPruning
    /\ NoTdma
    /\ OtherIdleBut({"relay"})
    /\ path_lists = <<>>
    /\ packet_objs = <<[routing_path |-> None, next_hop_id |-> None]>>
    /\ relay_queue = [n \in RelayNodes |-> IF n = OSource THEN <<1>> ELSE <<>>]
    /\ relay_waiting = [n \in RelayNodes |-> <<>>]
    /\ relay_mac = [n \in RelayNodes |-> MacIdle(0)]
    /\ transmissions = {}
    /\ selections = {}

\* Drone.feed_packet: the head of the transmit queue goes through
\* next_hop_selection; with a route packet_coming counts the attempt and
\* hands the packet to the MAC, without one it goes to the waiting list
relay_feed_packet ==
    \E n \in RelayNodes, path \in SourcePaths :
        /\ relay_mac[n].stage = "idle"
        /\ relay_queue[n] # <<>>
        /\ LET o == Head(relay_queue[n])
               Fed(before, sel) ==
                   /\ path_lists' = sel.lists
                   /\ packet_objs' = [packet_objs EXCEPT ![o] = sel.packet]
                   /\ selections' = selections \cup
                          {[at |-> n, obj |-> o, before |-> before,
                            after |-> sel.lists[sel.packet.routing_path],
                            next_hop_id |-> sel.packet.next_hop_id,
                            has_route |-> sel.has_route]}
                   /\ IF sel.has_route
                      THEN /\ relay_mac' = [relay_mac EXCEPT ![n] =
                                  [pkd |-> o, stage |-> "tx", ack |-> FALSE,
                                   attempts |-> @.attempts + 1]]
                           /\ UNCHANGED relay_waiting
                      ELSE /\ relay_waiting' = [relay_waiting EXCEPT ![n] = Append(@, o)]
                           /\ UNCHANGED relay_mac
           IN  IF n = OSource
               THEN Fed(path, source_next_hop_selection(path_lists, packet_objs[o], path, n))
               ELSE /\ path = <<0, 3>>
                    /\ Fed(path_lists[packet_objs[o].routing_path],
                           relay_next_hop_selection(path_lists, packet_objs[o], n))
        /\ relay_queue' = [relay_queue EXCEPT ![n] = Tail(@)]
        /\ transmissions' = transmissions
        /\ UNCHANGED <<apartFrame, butRelay>>

\* Phy.unicast of the packet of drone n to its next hop.  When the next hop
\* gets the frame: packet_reception of a DataPacket, opar.py:234-288 - it
\* copies the packet; the destination answers with an ACK, a relay with
\* room in its queue enqueues the copy and answers with an ACK.  The ACK
\* reaches drone n or is lost
relay_unicast ==
    \E n \in RelayNodes, outcome \in {"received", "lost"},
       ack_outcome \in {"received", "lost"} :
        /\ relay_mac[n].stage = "tx"
        /\ LET o == relay_mac[n].pkd
               pkt == packet_objs[o]
               hop == pkt.next_hop_id
               accepted == /\ outcome = "received"
                           /\ hop = ODestination \/ HasCapacity(relay_queue[hop])
           IN  /\ transmissions' = transmissions \cup
                      {[from |-> n, obj |-> o, attempt |-> relay_mac[n].attempts,
                        routing_path |-> path_lists[pkt.routing_path],
                        next_hop_id |-> hop]}
               /\ ~accepted => ack_outcome = "lost"
               /\ relay_mac' = [relay_mac EXCEPT ![n].stage = "wait_ack",
                                                 ![n].ack = (ack_outcome = "received")]
               /\ IF accepted
                  THEN /\ packet_objs' = Append(packet_objs, shallow_copy(pkt))
                       /\ relay_queue' =
                              IF hop = ODestination THEN relay_queue
                              ELSE [relay_queue EXCEPT ![hop] = Append(@, Len(packet_objs) + 1)]
                  ELSE UNCHANGED <<packet_objs, relay_queue>>
        /\ UNCHANGED <<path_lists, relay_waiting, selections>>
        /\ UNCHANGED <<apartFrame, butRelay>>

\* packet_reception of an AckPacket, opar.py:290-304: the wait_ack of the
\* sender is interrupted
relay_ack_packet_reception ==
    \E n \in RelayNodes :
        /\ relay_mac[n].stage = "wait_ack"
        /\ relay_mac[n].ack
        /\ relay_mac' = [relay_mac EXCEPT ![n] = MacIdle(@.attempts)]
        /\ UNCHANGED <<path_lists, packet_objs, relay_queue, relay_waiting,
                       transmissions, selections>>
        /\ UNCHANGED <<apartFrame, butRelay>>

\* wait_ack, csma_ca.py:160-186: no ACK within ACK_TIMEOUT; packet_coming
\* of the same packet object again while the counter allows it, else the
\* packet is dropped
relay_wait_ack ==
    \E n \in RelayNodes :
        /\ relay_mac[n].stage = "wait_ack"
        /\ ~relay_mac[n].ack
        /\ relay_mac' = [relay_mac EXCEPT ![n] =
               IF MayRetransmit(@.attempts)
               THEN [@ EXCEPT !.stage = "tx", !.attempts = @ + 1]
               ELSE MacIdle(@.attempts)]
        /\ UNCHANGED <<path_lists, packet_objs, relay_queue, relay_waiting,
                       transmissions, selections>>
        /\ UNCHANGED <<apartFrame, butRelay>>

\* check_waiting_list, opar.py:328-343: drone n sweeps its waiting list
relay_check_waiting_list ==
    \E n \in RelayNodes :
        /\ relay_waiting[n] # <<>>
        /\ LET Swept(s) ==
                   /\ relay_waiting' = [relay_waiting EXCEPT ![n] = s.wl]
                   /\ relay_queue' = [relay_queue EXCEPT ![n] = s.q]
                   /\ path_lists' = s.lists
                   /\ packet_objs' = s.objs
           IN  Swept(OparSweep(1, relay_waiting[n], relay_queue[n], path_lists,
                               packet_objs, n))
        /\ UNCHANGED <<relay_mac, transmissions, selections>>
        /\ UNCHANGED <<apartFrame, butRelay>>

NextRelay ==
    \/ relay_feed_packet
    \/ relay_unicast
    \/ relay_ack_packet_reception
    \/ relay_wait_ack
    \/ relay_check_waiting_list

SpecRelay == InitRelay /\ [][NextRelay]_vars

(***************************************************************************)
(* Graph as the code stores it: adjList is a defaultdict(list), modelled   *)
(* by the set of its keys and the list of every node (empty for a node    *)
(* that is no key).  Reading adjList[k] makes k a key.                     *)
(***************************************************************************)
ListNodes == 0..3
\* Graph.__init__, graph.py:6-12
EmptyAdjList == [keys |-> {}, lists |-> [n \in ListNodes |-> <<>>]]
\* `v in l` for a list l
Has(l, v) == \E i \in 1..Len(l) : l[i] = v
\* defaultdict.__getitem__ of adjList, graph.py:8
Touch(a, k) == [a EXCEPT !.keys = @ \cup {k}]
\* list.remove(v): the first occurrence goes
RemoveFirst(l, v) == RemoveAt(l, CHOOSE i \in 1..Len(l) : l[i] = v /\ \A j \in 1..(i - 1) : l[j] # v)

\* an add_edge that enters the edge at v1 only
list_add_edge_OneWay(a, v1, v2) ==
    IF v1 = v2 THEN a
    ELSE [Touch(Touch(a, v1), v2) EXCEPT
              !.lists[v1] = IF Has(@, v2) THEN @ ELSE Append(@, v2)]

\* Graph.add_edge, graph.py:18-25
list_add_edge(a, v1, v2) ==
    IF v1 = v2 THEN a
    ELSE [Touch(Touch(a, v1), v2) EXCEPT
              !.lists[v1] = IF Has(@, v2) THEN @ ELSE Append(@, v2),
              !.lists[v2] = IF Has(@, v1) THEN @ ELSE Append(@, v1)]

\* Graph.remove_edge, graph.py:27-32
list_remove_edge(a, v1, v2) ==
    LET first == [Touch(a, v1) EXCEPT
                      !.lists[v1] = IF Has(@, v2) THEN RemoveFirst(@, v2) ELSE @]
    IN  [Touch(first, v2) EXCEPT
             !.lists[v2] = IF Has(@, v1) THEN RemoveFirst(@, v1) ELSE @]

\* the sort key of Graph.get_sorted_nodes, graph.py:114-129, on lists
ListSortsBefore(a, x, y) ==
    LET dx == Len(a.lists[x])
        dy == Len(a.lists[y])
    IN  dx > dy \/ (dx = dy /\ x <= y)

\* sorted(nodes, key), graph.py:123-129, of a list
RECURSIVE InsertSorted(_, _, _)
InsertSorted(a, x, s) ==
    IF s = <<>> THEN <<x>>
    ELSE IF ListSortsBefore(a, x, Head(s)) THEN <<x>> \o s
         ELSE <<Head(s)>> \o InsertSorted(a, x, Tail(s))

RECURSIVE SortedList(_, _)
SortedList(a, l) ==
    IF l = <<>> THEN <<>> ELSE InsertSorted(a, Head(l), SortedList(a, Tail(l)))

\* Graph.sort, graph.py:93-97
list_sort(a) == [a EXCEPT !.lists = [n \in ListNodes |-> SortedList(a, a.lists[n])]]

\* what Graph.get_subgraph_within_hops does to the graph it is called on,
\* graph.py:172-202: it reads it with find_neighbor, which uses
\* adjList.get, and writes the new subgraph only
list_get_subgraph_within_hops(a, start_node, max_hops) == a

\* what Graph.get_mlst does to the graph it is called on, graph.py:204-270:
\* it sorts it, and past the early return of graph.py:222-224 it reads
\* adjList[node] of every neighbour of the root, graph.py:236-238
list_get_mlst(a, root) ==
    LET sorted == list_sort(a)
        neighbours == {sorted.lists[root][i] : i \in 1..Len(sorted.lists[root])}
    IN  IF root \in sorted.keys
           /\ Cardinality({root} \cup neighbours) # Cardinality(sorted.keys)
        THEN [sorted EXCEPT !.keys = @ \cup neighbours]
        ELSE sorted

InitList ==
    /\ NoMacLayer
    /\ coords = <<>>
    /\ NoMlst
    /\ NoPruning
    /\ NoTdma
    /\ OtherIdleBut({"list"})
    /\ adj_lists = EmptyAdjList
    /\ graph_call = "__init__"

call_add_edge ==
    \E v1 \in ListNodes, v2 \in ListNodes :
        /\ adj_lists' = list_add_edge(adj_lists, v1, v2)
        /\ graph_call' = "add_edge"
        /\ UNCHANGED <<apartFrame, butList>>

call_remove_edge ==
    \E v1 \in ListNodes, v2 \in ListNodes :
        /\ adj_lists' = list_remove_edge(adj_lists, v1, v2)
        /\ graph_call' = "remove_edge"
        /\ UNCHANGED <<apartFrame, butList>>

call_sort ==
    /\ adj_lists' = list_sort(adj_lists)
    /\ graph_call' = "sort"
    /\ UNCHANGED <<apartFrame, butList>>

call_get_subgraph_within_hops ==
    \E start_node \in ListNodes, max_hops \in 0..2 :
        /\ adj_lists' = list_get_subgraph_within_hops(adj_lists, start_node, max_hops)
        /\ graph_call' = "get_subgraph_within_hops"
        /\ UNCHANGED <<apartFrame, butList>>

call_list_get_mlst ==
    \E root \in ListNodes :
        /\ adj_lists' = list_get_mlst(adj_lists, root)
        /\ graph_call' = "get_mlst"
        /\ UNCHANGED <<apartFrame, butList>>

NextList ==
    \/ call_add_edge
    \/ call_remove_edge
    \/ call_sort
    \/ call_get_subgraph_within_hops
    \/ call_list_get_mlst

SpecList == InitList /\ [][NextList]_vars

(***************************************************************************)
(* Specification SpecModes: three static drones, in a row or all in range  *)
(* of each other, in each of the three broadcast modes for ModeFrames      *)
(* frames.                                                                 *)
(***************************************************************************)
ModeFrames == 21
ModeDrones == 0..2
\* the places on a line: a chain 0 - 1 - 2 and a triangle
ModePlaces == {[d \in ModeDrones |-> d], [d \in ModeDrones |-> IF d = 0 THEN 0 ELSE 1]}

InitModes ==
    /\ \E xs \in ModePlaces : InitTdmaBut(xs, {"mode"})
    /\ data_broadcast_type \in {0, 1, 2}

NextModes == tdma_broadcast(ModeFrames)

SpecModes == InitModes /\ [][NextModes]_vars

(***************************************************************************)
(* Specification SpecLoop: next_hop_selection at the source, opar.py:      *)
(* 128-202, one dijkstra call per step, on every topology of the drones    *)
(* ONodes with every lifetime of AnyLifetimes on each link in range.       *)
(***************************************************************************)
AnyLinks == {l \in SUBSET ONodes : Cardinality(l) = 2}
AnyLifetimes == 1..3
\* more rounds than the while loop makes on any of these topologies
MaxRounds == 8

InitLoop ==
    /\ InitOparBut({"loop"})
    /\ in_range \in SUBSET AnyLinks
    /\ link_lifetime \in [AnyLinks -> AnyLifetimes]
    /\ \A l \in AnyLinks \ in_range : link_lifetime[l] = 1
    /\ loop_pc = "start"
    /\ loop_path = <<>>
    /\ loop_minimum = 0
    /\ loop_rounds = 0

\* opar.py:132-167: the cost matrix, the first dijkstra and the metrics of
\* its path; without a path best_path is [source, source] and the while
\* loop is not entered
loop_first ==
    /\ loop_pc = "start"
    /\ LET Measured(path, m) ==
               /\ loop_path' = path
               /\ loop_minimum' = m.minimum_link_lifetime
               /\ best_obj' = Objective(m)
               /\ routing_path' = path
               /\ loop_pc' = "loop"
           First(found) ==
               /\ opar_cost' = found.cost
               /\ IF found.path = <<>>
                  THEN /\ loop_path' = <<>>
                       /\ loop_minimum' = None
                       /\ routing_path' = <<OSource, OSource>>
                       /\ loop_pc' = "attach"
                       /\ UNCHANGED best_obj
                  ELSE Measured(Tail(found.path),
                                PathMetrics(Tail(found.path), 1, link_lifetime, NoMetrics))
       IN  First(dijkstra(calculate_cost_matrix(in_range), OSource, ODestination,
                          link_lifetime, 0))
    /\ UNCHANGED <<in_range, link_lifetime, next_hop_id, loop_rounds, oparBase, butLoop>>

\* one round of the while loop, opar.py:169-198: dijkstra without the links
\* whose lifetime is not above minimum_link_lifetime, the metrics of its
\* path, and the better objective kept
loop_iteration ==
    /\ loop_pc = "loop"
    /\ loop_rounds < MaxRounds
    /\ loop_rounds' = loop_rounds + 1
    /\ LET Measured(path, m) ==
               /\ loop_path' = path
               /\ loop_minimum' = m.minimum_link_lifetime
               /\ IF Objective(m) < best_obj
                  THEN /\ best_obj' = Objective(m)
                       /\ routing_path' = path
                  ELSE UNCHANGED <<best_obj, routing_path>>
               /\ loop_pc' = "loop"
           Again(found) ==
               /\ opar_cost' = found.cost
               /\ IF found.path = <<>>
                  THEN /\ loop_path' = <<>>
                       /\ loop_pc' = "attach"
                       /\ UNCHANGED <<loop_minimum, best_obj, routing_path>>
                  ELSE Measured(Tail(found.path),
                                PathMetrics(Tail(found.path), 1, link_lifetime, NoMetrics))
       IN  Again(dijkstra(opar_cost, OSource, ODestination, link_lifetime, loop_minimum))
    /\ UNCHANGED <<in_range, link_lifetime, next_hop_id, oparBase, butLoop>>

\* opar.py:200-202 and 215-220: the best path without the source is attached
loop_attach ==
    /\ loop_pc = "attach"
    /\ routing_path' = Tail(routing_path)
    /\ next_hop_id' = IF routing_path[2] = OSource THEN next_hop_id ELSE routing_path[2]
    /\ loop_pc' = "done"
    /\ UNCHANGED <<in_range, link_lifetime, opar_cost, best_obj, loop_path,
                   loop_minimum, loop_rounds, oparBase, butLoop>>

NextLoop ==
    \/ loop_first
    \/ loop_iteration
    \/ loop_attach

SpecLoop == InitLoop /\ [][NextLoop]_vars

(***************************************************************************)
(* Claims.                                                                 *)
(***************************************************************************)
BothHeld(i, j) == i # j /\ InRange(coords, i, j) /\ channel_states[i] /\ channel_states[j]

\* C1 (as stated): for any two distinct drones closer than SENSING_RANGE, no
\* reachable state has both channel_states resources held.
C1_MutualExclusion == \A i, j \in Drones : ~BothHeld(i, j)

\* C1 (amended): two drones closer than SENSING_RANGE hold their resources
\* at the same time only if the two holds began less than one listener poll
\* (1 us) apart: a drone never acquires its resource a poll interval or more
\* after a drone in sensing range acquired its own and still holds it.
C1_HoldsBeginTogether ==
    \A i, j \in Drones :
        BothHeld(i, j) =>
            /\ hold_since[i] - hold_since[j] < ListenInterval * US
            /\ hold_since[j] - hold_since[i] < ListenInterval * US

\* two drones in sensing range are on air together
C1_Witness == \E i, j \in Drones : BothHeld(i, j)


\* events of a kind in K that belong to drone d
C2_HeldWhileOnAir(d) ==
    (mac_protocol = "CsmaCa" /\ mac_pc[d] \in {"request", "airtime", "hold"})
        => channel_states[d]

C2_ReleasedAfterAckWindow(d) ==
    (transmission_mode[d] = 0 /\ channel_states[d] /\ ~channel_states'[d])
        => now' = transmitting_start_time[d] + DataAirtime + SIFS_DURATION + AckAirtime

\* C2: for a unicast frame sent by CSMA/CA mac_send the sender holds its
\* channel resource from the PHY unicast on, and gives it up exactly
\* SIFS_DURATION + ACK airtime after the end of the data airtime, not before.
C2_ContinuousHold ==
    /\ [](\A d \in Drones : C2_HeldWhileOnAir(d))
    /\ [][\A d \in Drones : C2_ReleasedAfterAckWindow(d)]_vars

\* the ACK of the receiver is on air while the sender still holds its resource
C2_Witness ==
    \E d \in Drones :
        /\ mac_pc[d] = "hold" /\ channel_states[d]
        /\ \E i \in 1..Len(evq) : evq[i].k = "ack_airtime" /\ evq[i].a = d


Range(q) == {q[i] : i \in 1..Len(q)}

\* some drone holds p: in its transmit queue, in its MAC awaiting the ACK, or
\* on its waiting list
Held(p) ==
    \E n \in Nodes :
        \/ p \in Range(transmitting_queue[n])
        \/ in_mac[n].p = p
        \/ p \in Range(waiting_list[n])

Delivered(p) == p \in datapacket_arrived
DroppedAfterMax(p) == \E n \in Nodes : <<n, p>> \in dropped
DroppedOnOverflow(p) == p \in overflowed

\* C3 (as stated): at every instant up to the end of the simulation a data
\* packet is held by some drone, or has been delivered, dropped after
\* MAX_RETRANSMISSION_ATTEMPT attempts, or dropped on queue overflow at a
\* receiver; it leaves the network by no other path.
C3_ThreeOutcomes ==
    \A p \in Packets :
        Held(p) \/ Delivered(p) \/ DroppedAfterMax(p) \/ DroppedOnOverflow(p)

\* C3 (amended): there is a fourth way out, the sweep of the waiting list,
\* which discards a packet only after creation_time + deadline has passed.
C3_FourOutcomes ==
    /\ \A p \in Packets :
          \/ Held(p) \/ Delivered(p) \/ DroppedAfterMax(p) \/ DroppedOnOverflow(p)
          \/ p \in expired
    /\ \A p \in expired : now > creation_time[p] + Deadline

\* a packet left the network through the sweep and through nothing else
C3_Witness ==
    \E p \in Packets :
        /\ p \in expired
        /\ ~Held(p) /\ ~Delivered(p) /\ ~DroppedAfterMax(p) /\ ~DroppedOnOverflow(p)
        /\ now = SimTime


C4_AtMostMax == \A d \in Drones : tx_count[d] <= MAX_RETRANSMISSION_ATTEMPT

C4_OnAckTimeout(d) ==
    (Fire("ack_timeout") /\ Head(evq).d = d) =>
        IF number_retransmission_attempt[d] < MAX_RETRANSMISSION_ATTEMPT
        THEN /\ Cardinality(Pending(evq', {"packet_coming", "random_wait"}, d)) = 1
             /\ mac_delay' = mac_delay
             /\ dropped' = dropped
        ELSE /\ dropped' = dropped \cup {d}
             /\ mac_delay' = Append(mac_delay,
                    [d |-> d, num |-> now' - first_attempt_time[d], den |-> 1000 * US])
             /\ Pending(evq', {"packet_coming", "random_wait", "mac_send"}, d) = {}

C4_NothingAfterDrop(d) ==
    d \in dropped =>
        /\ tx_count'[d] = tx_count[d]
        /\ number_retransmission_attempt'[d] = number_retransmission_attempt[d]

\* C4: when ACK_TIMEOUT elapses, a packet whose counter is below
\* MAX_RETRANSMISSION_ATTEMPT is handed back exactly once and nothing is
\* recorded; otherwise it is dropped, exactly one sample now - first_attempt_time
\* is appended to mac_delay and the sender never transmits it again.  A sender
\* transmits its packet at most MAX_RETRANSMISSION_ATTEMPT times.
C4_BoundedRetransmission ==
    /\ []C4_AtMostMax
    /\ [][\A d \in Drones : C4_OnAckTimeout(d) /\ C4_NothingAfterDrop(d)]_vars

\* a packet was dropped after MAX_RETRANSMISSION_ATTEMPT transmissions
C4_Witness ==
    \E d \in Drones :
        /\ d \in dropped
        /\ tx_count[d] = MAX_RETRANSMISSION_ATTEMPT
        /\ \E i \in 1..Len(mac_delay) : mac_delay[i].d = d


C5_Waiting(d) == WaitAckAlive(wait_ack_pc[d][wait_ack_process_dict[d]])

\* the step in which d receives an ACK
C5_AckReceived(d) ==
    Fire("ack_airtime") /\ Head(evq).a = d /\ Len(mac_delay') = Len(mac_delay) + 1

C5_OnAck(d) ==
    (C5_AckReceived(d) /\ wait_ack_process_dict[d] > 0 /\ C5_Waiting(d)) =>
        /\ wait_ack_process_finish'[d] = 1
        /\ \E i \in 1..Len(evq') :
              /\ evq'[i] = Ev(now', 0, "interrupt_wait_ack", d, wait_ack_process_dict[d], 0)
        /\ \A i \in 1..Len(transmitting_queue'[d]) : transmitting_queue'[d][i] # d

\* the interrupt reaches a wait_ack that waits for its timeout or random wait
C5_OnInterrupt(d) ==
    (/\ Fire("interrupt_wait_ack") /\ Head(evq).d = d
     /\ wait_ack_pc[d][Head(evq).a] \in {"ack_timeout", "random_wait"}) =>
        /\ wait_ack_pc'[d][Head(evq).a] = "interrupted"
        /\ \A i \in 1..Len(evq') :
              evq'[i].d = d => evq'[i].k \notin {"ack_timeout", "random_wait", "packet_coming"}
        /\ number_retransmission_attempt' = number_retransmission_attempt
        /\ dropped' = dropped
        /\ mac_delay' = mac_delay

\* a wait_ack interrupted before it handed the packet back stays ended: the
\* counter of the packet does not move and no drop is recorded
C5_StaysEnded(d) ==
    \A a \in DOMAIN wait_ack_pc[d] :
        (wait_ack_pc[d][a] = "interrupted" /\ number_retransmission_attempt[d] = a) =>
            /\ d \notin dropped
            /\ wait_ack_pc'[d][a] = "interrupted"
            /\ number_retransmission_attempt'[d] = a
            /\ d \notin dropped'

\* C5: an ACK received while the registered wait_ack still waits sets
\* wait_ack_process_finish to 1, interrupts that wait_ack and leaves the packet
\* out of the transmit queue; the interrupted wait_ack ends, hands nothing
\* back and records no drop.
C5_AckEndsWaitAck ==
    [][\A d \in Drones : C5_OnAck(d) /\ C5_OnInterrupt(d) /\ C5_StaysEnded(d)]_vars

\* the first wait_ack was interrupted by the ACK and everything has ended
C5_Witness ==
    \E d \in Drones :
        /\ wait_ack_pc[d][1] = "interrupted"
        /\ number_retransmission_attempt[d] = 1
        /\ wait_ack_process_finish[d] = 1
        /\ d \notin dropped
        /\ evq = <<>>


\* C6: first_attempt_time of a packet is written exactly once at its drone,
\* however often its countdown is interrupted and however often it is
\* retransmitted.
C6_WrittenOnce == \A d \in Drones : fat_writes[d] <= 1


\* C7: a step of a mac_send whose packet has a retransmission counter greater
\* than 1 leaves first_attempt_time unchanged.
C7_RetriesKeepFirstAttemptTime ==
    [][\A d \in Drones :
          number_retransmission_attempt[d] > 1 =>
              first_attempt_time'[d] = first_attempt_time[d]]_vars

\* the second attempt of a packet is on air
C7_Witness ==
    \E d \in Drones :
        /\ number_retransmission_attempt[d] = 2
        /\ tx_count[d] = 2
        /\ mac_pc[d] \in {"airtime", "aloha_airtime"}
        /\ first_attempt_time[d] >= 0


\* the interrupt reaches the countdown of d; elapsed is the time since the
\* countdown started
C8_OnInterrupt(d) ==
    (Fire("interrupt") /\ Head(evq).d = d /\ mac_pc[d] = "countdown") =>
        LET elapsed == now' - start_time[d]
        IN  /\ IF elapsed < DIFS_DURATION
               THEN backoff'[d] = backoff[d]
               ELSE backoff'[d] = to_wait[d] - elapsed
            /\ to_wait'[d] = DIFS_DURATION + backoff'[d]

C8_BackoffShrinks(d) ==
    ~Fire("mac_send") => backoff'[d] <= backoff[d]

C8_Sane(d) ==
    /\ backoff[d] >= 0
    /\ mac_pc[d] = "countdown" => to_wait[d] > 0
    /\ mac_pc[d] # "failed"

\* C8: an interrupt inside the DIFS segment keeps the backoff, one inside the
\* backoff segment sets it to old to_wait - elapsed; in both cases the next
\* countdown is DIFS + the new backoff.  Within one mac_send the backoff never
\* grows and is never negative, and a countdown starts with to_wait > 0.
C8_BackoffFreeze ==
    /\ [](\A d \in Drones : C8_Sane(d))
    /\ [][\A d \in Drones : C8_OnInterrupt(d) /\ C8_BackoffShrinks(d)]_vars

\* a backoff frozen in the middle of a slot waits for the channel
C8_Witness ==
    \E d \in Drones :
        /\ mac_pc[d] = "wait_idle"
        /\ backoff[d] > 0
        /\ backoff[d] % SLOT_DURATION # 0
        /\ to_wait[d] = DIFS_DURATION + backoff[d]


\* C9: mac_send of attempt a draws backoff = k * SLOT_DURATION with
\* 0 <= k <= CW - 1, CW = (CW_MIN + 1) * 2^(a - 1) - 1, and sets
\* to_wait = DIFS_DURATION + backoff.
C9_BackoffDraw ==
    [][\A d \in Drones :
          (Fire("mac_send") /\ Head(evq).d = d /\ mac_protocol = "CsmaCa") =>
              LET a == number_retransmission_attempt[d]
                  CW == (CW_MIN + 1) * (2 ^ (a - 1)) - 1
              IN  /\ a >= 1
                  /\ \E k \in 0..(CW - 1) : backoff'[d] = k * SLOT_DURATION
                  /\ to_wait'[d] = DIFS_DURATION + backoff'[d]]_vars

\* the second attempt drew the largest backoff of its window
C9_Witness ==
    \E d \in Drones :
        /\ number_retransmission_attempt[d] = 2
        /\ mac_pc[d] = "wait_idle"
        /\ fat_writes[d] = 1
        /\ backoff[d] = ((CW_MIN + 1) * 2 - 2) * SLOT_DURATION
        /\ to_wait[d] = DIFS_DURATION + backoff[d]


\* the step issues an interrupt of kind k to a process of d
C10_Issues(k, d) ==
    Cardinality(Pending(evq', {k}, d)) > Cardinality(Pending(evq, {k}, d))

C10_MacSend(d) ==
    /\ C10_Issues("interrupt", d) =>
           mac_process_finish[d] = 0 /\ mac_pc[d] = "countdown"
    /\ (Fire("interrupt") /\ Head(evq).d = d) =>
           mac_process_finish[d] = 0 /\ mac_pc[d] = "countdown"

C10_WaitAck(d) ==
    /\ C10_Issues("interrupt_wait_ack", d) =>
           /\ wait_ack_process_finish[d] = 0
           /\ wait_ack_process_dict[d] > 0
           /\ WaitAckAlive(wait_ack_pc[d][wait_ack_process_dict[d]])
    /\ (Fire("interrupt_wait_ack") /\ Head(evq).d = d) =>
           WaitAckAlive(wait_ack_pc[d][Head(evq).a])

\* C10: an interrupt is issued to a mac_send or a wait_ack only when the
\* process_finish flag of its key is 0 and the process has not ended, and the
\* process still has not ended when the interrupt reaches it: the listener
\* interrupts a mac_send only during its countdown, never while it
\* transmits, and an ACK never interrupts a wait_ack that has ended.
C10_InterruptOnlyLive ==
    [][\A d \in Drones : C10_MacSend(d) /\ C10_WaitAck(d)]_vars

\* an ACK's interrupt is on its way while the other drone, its countdown
\* interrupted before, waits for the channel
C10_Witness ==
    /\ \E i \in 1..Len(evq) : evq[i].k = "interrupt_wait_ack"
    /\ \E d \in Drones : mac_pc[d] = "wait_idle" /\ fat_writes[d] >= 1


\* the process registered under the mac_send key of d has ended
C11_MacSendEnded(d) == mac_pc[d] \in {"done", "failed"}

\* the process registered under the wait_ack key of d has ended
C11_WaitAckEnded(d) ==
    /\ wait_ack_process_dict[d] > 0
    /\ ~WaitAckAlive(wait_ack_pc[d][wait_ack_process_dict[d]])

C12_InBlock(d) == mac_pc[d] \in {"request", "airtime", "hold"}

\* C12: the resource of drone i is held only while the mac_send of i is
\* inside its transmission block: when mac_send leaves the block, at the end
\* of the transmission or by an interrupt thrown into it, the resource is
\* free, and it is free when mac_send has ended.
C12_ScopedHold ==
    \A d \in Drones : channel_states[d] => C12_InBlock(d)

\* an interrupt thrown into a transmitting mac_send has ended it, and its
\* resource is free
C12_Witness ==
    /\ stray > 0
    /\ \E d \in Drones :
          /\ tx_count[d] > 0
          /\ mac_pc[d] \in {"failed", "wait_idle"}
          /\ number_retransmission_attempt[d] = tx_count[d]
          /\ ~channel_states[d]


C13_Started(d) == ttl'[d] # ttl[d]

C13_AirtimeStarts(d) ==
    \E i \in 1..Len(evq') :
        /\ evq'[i].k \in {"airtime", "aloha_airtime"}
        /\ evq'[i].d = d
        /\ evq'[i].t = now' + DataAirtime

C13_PhyCalled(d) ==
    \E i \in 1..Len(evq') :
        /\ evq'[i].k \in {"receive", "receive_hello"}
        /\ evq'[i].a = d
        /\ \A j \in 1..Len(evq) : evq[j] # evq'[i]
        /\ \E late \in RxDelays : evq'[i].t = now' + DataAirtime + late

\* C13: in both MAC protocols, for unicast and broadcast, the step that
\* increments the TTL is the step that hands the frame to the PHY and starts
\* the airtime timeout, all at the time the transmission starts: the frame
\* reaches the receiver one airtime (plus the channel's delay) after that
\* time, and the sender wakes up one airtime after it.
C13_PhyCallAtStart ==
    [][\A d \in Drones :
          C13_Started(d) =>
              /\ ttl'[d] = ttl[d] + 1
              /\ mac_protocol = "CsmaCa" => transmitting_start_time'[d] = now'
              /\ C13_AirtimeStarts(d)
              /\ C13_PhyCalled(d)]_vars

\* a unicast and a broadcast are on the air under pure ALOHA, each with its
\* reception and its airtime timeout pending
C13_Witness ==
    /\ mac_protocol = "PureAloha"
    /\ \E d \in Drones :
          /\ transmission_mode[d] = 0 /\ transmission_mode[Peer(d)] = 1
          /\ mac_pc[d] = "aloha_airtime" /\ mac_pc[Peer(d)] = "aloha_airtime"
          /\ ttl[d] = 1 /\ ttl[Peer(d)] = 1
          /\ Pending(evq, {"receive"}, Peer(d)) # {}
          /\ Pending(evq, {"receive_hello"}, d) # {}


\* packet_reception of a copy of p at its destination
C14_Received(p) ==
    Fire("receive") /\ Head(evq).a = p /\ evq' # evq /\ evq' # Tail(evq)

C14_Accounted(p) ==
    /\ deliver_time_dict'[p] = now' - creation_time[p]
    /\ hop_cnt_dict'[p] = ttl[p]

C14_Kept(p) ==
    /\ deliver_time_dict'[p] = deliver_time_dict[p]
    /\ hop_cnt_dict'[p] = hop_cnt_dict[p]

\* the claim as stated: every reception, first or duplicate, leaves the
\* latency and the TTL of the copy just received in the metrics
C14_EveryReceptionAccounted ==
    [][\A p \in Drones : C14_Received(p) => C14_Accounted(p)]_vars

\* C14: after a reception of DataPacket p at its destination,
\* deliver_time_dict[p] is the reception time minus p's creation time and
\* hop_cnt_dict[p] is the TTL of the received copy if the protocol is DSDV or
\* the reception is the first one of p; after a duplicate under Greedy and
\* OPAR both entries are those of the first reception still.
C14_FirstReceptionAccounted ==
    [][\A p \in Drones :
          C14_Received(p) =>
              IF routing_protocol = "Dsdv" \/ p \notin datapacket_arrived
              THEN C14_Accounted(p)
              ELSE C14_Kept(p)]_vars

\* under Greedy a retransmitted copy has reached the destination, which
\* answers it while the metrics are those of the first copy
C14_Witness ==
    /\ routing_protocol = "Greedy"
    /\ \E p \in Drones :
          /\ p \in datapacket_arrived
          /\ ttl[p] = 2
          /\ hop_cnt_dict[p] = 1
          /\ deliver_time_dict[p] < now - creation_time[p]
          /\ Pending(evq, {"ack_sifs"}, Peer(p)) # {}


\* the fields of Metrics (metrics.py:35-62) that the model keeps
C15_Counters == <<mac_delay, datapacket_arrived, deliver_time_dict, hop_cnt_dict>>

\* packet_reception of a DataPacket at a relay whose transmit queue is full
C15_Refused == overflowed' # overflowed

\* the claim as stated: when a drone that is not the destination receives a
\* DataPacket while its transmit queue is full, the queue is unchanged, no
\* ACK goes back to the sender, and a counter of the program records the drop
C15_FullQueueDropCounted ==
    [][C15_Refused =>
          /\ transmitting_queue' = transmitting_queue
          /\ \A n \in Nodes : in_mac'[n] # in_mac[n] => ~in_mac'[n].ack
          /\ C15_Counters' # C15_Counters]_vars


\* the frame of drone n, sent to a relay, has been received or lost
C15_RelayStep(n) ==
    /\ in_mac[n].stage = "tx"
    /\ in_mac'[n].stage = "wait_ack"
    /\ in_mac[n].hop # Destination

C15_Room(q) == Len(q) < MaxQueueSize

\* C15: when a drone that is not the destination receives a DataPacket while
\* its transmit queue is full, the queue is unchanged, no ACK goes back and
\* no counter of the program changes: the drop leaves no trace.  With room
\* in the queue the copy is appended to it, and an ACK goes back only for a
\* copy that was appended.
C15_FullQueueSilentDrop ==
    [][\A n \in Nodes :
          C15_RelayStep(n) =>
              LET hop == in_mac[n].hop
                  q == transmitting_queue[hop]
              IN  /\ C15_Counters' = C15_Counters
                  /\ C15_Refused => ~C15_Room(q)
                  /\ ~C15_Room(q) =>
                        /\ transmitting_queue' = transmitting_queue
                        /\ ~in_mac'[n].ack
                  /\ transmitting_queue' # transmitting_queue =>
                        /\ C15_Room(q)
                        /\ transmitting_queue' =
                               [transmitting_queue EXCEPT ![hop] = Append(q, in_mac[n].p)]
                  /\ in_mac'[n].ack => transmitting_queue' # transmitting_queue]_vars

\* a relay with a full queue has refused a packet: its sender waits for an
\* ACK that does not come
C15_Witness ==
    \E n \in Nodes :
        /\ in_mac[n].stage = "wait_ack"
        /\ ~in_mac[n].ack
        /\ in_mac[n].hop # Destination
        /\ in_mac[n].p \in overflowed
        /\ Len(transmitting_queue[in_mac[n].hop]) = MaxQueueSize
        /\ in_mac[n].p \notin Range(transmitting_queue[in_mac[n].hop])


\* C16: the transmit queue of every drone holds at most max_queue_size
\* packets, whatever put them there.
C16_QueueBounded ==
    \A n \in Nodes : Len(transmitting_queue[n]) <= MaxQueueSize


\* the ACKs that drone d has still to send, and those it has on the air
C17_Due(q, d) == Cardinality(Pending(q, {"ack_sifs"}, d))
C17_OnAir(q, d) == Cardinality(Pending(q, {"ack_airtime"}, d))

\* packet_reception accepts a DataPacket: one ACK is due SIFS_DURATION later
C17_OnReception ==
    (Fire("receive") /\ evq' # evq /\ evq' # Tail(evq)) =>
        LET me == Head(evq).d
            src == Head(evq).a
        IN  /\ C17_Due(evq', me) = C17_Due(evq, me) + 1
            /\ \E i \in Pending(evq', {"ack_sifs"}, me) :
                  /\ evq'[i].t = now' + SIFS_DURATION
                  /\ evq'[i].a = src
                  /\ \A j \in 1..Len(evq) : evq[j] # evq'[i]

\* SIFS_DURATION after the reception: a drone that is awake puts one ACK for
\* the previous hop on the air, whatever the state of the channel, and
\* touches neither its channel_states resource nor its backoff; the previous
\* hop gets it one ACK airtime later.  A drone that sleeps sends nothing.
C17_WhenDue ==
    (Fire("ack_sifs") /\ evq' # evq) =>
        LET me == Head(evq).d
            src == Head(evq).a
        IN  /\ now' = Head(evq).t
            /\ C17_Due(evq', me) = C17_Due(evq, me) - 1
            /\ UNCHANGED <<channel_states, mac_pc, backoff, to_wait, start_time>>
            /\ IF sleep[me]
               THEN evq' = Tail(evq)
               ELSE /\ C17_OnAir(evq', me) = C17_OnAir(evq, me) + 1
                    /\ Len(evq') = Len(evq)
                    /\ \E i \in Pending(evq', {"ack_airtime"}, me) :
                          /\ evq'[i].t = now' + AckAirtime
                          /\ evq'[i].a = src
                          /\ \A j \in 1..Len(evq) : evq[j] # evq'[i]

\* no other step puts an ACK on the air or makes one due
C17_OnlyThen ==
    \A d \in Drones :
        /\ C17_OnAir(evq', d) > C17_OnAir(evq, d) => Fire("ack_sifs")
        /\ C17_Due(evq', d) > C17_Due(evq, d) => Fire("receive")

\* C17: for each DataPacket that packet_reception accepts, one ACK is due
\* exactly SIFS_DURATION after the reception; a receiver that is awake then
\* unicasts it to the previous hop without carrier sensing, backoff or its
\* channel_states resource, and the previous hop gets it after the ACK's
\* airtime; a receiver that sleeps then sends no ACK.
C17_AckAfterSifs ==
    [][C17_OnReception /\ C17_WhenDue /\ C17_OnlyThen]_vars

\* a drone that is awake has its ACK on the air while the sender still holds
\* its channel, and the other drone has fallen asleep with an ACK due and
\* has sent none: its peer's wait_ack has timed out
C17_Witness ==
    \E me \in Drones :
        /\ ~sleep[me] /\ sleep[Peer(me)]
        /\ Pending(evq, {"ack_airtime"}, me) # {}
        /\ channel_states[Peer(me)]
        /\ me \in datapacket_arrived
        /\ Pending(evq, {"ack_sifs", "ack_airtime"}, Peer(me)) = {}
        /\ tx_count[me] > 0
        /\ mac_delay = <<>>


\* check_waiting_list has just run: the only step that moves the sweeps' clock
C18_Swept == now' # now

\* C18: right after every sweep no waiting list holds a packet whose
\* deadline has passed, whatever the list held and in whatever order.
C18_NoExpiredAfterSweep ==
    [][C18_Swept =>
          \A n \in Nodes : \A i \in 1..Len(waiting_list'[n]) :
              ~(now' > creation_time[waiting_list'[n][i]] + Deadline)]_vars


C19_Count(p, l) == Cardinality({i \in 1..Len(l) : l[i] = p})

C19_Live(p) == ~(now' > creation_time[p] + Deadline)

\* what the sweep has appended to the transmit queue of drone n
C19_Moved(n) ==
    SubSeq(transmitting_queue'[n], Len(transmitting_queue[n]) + 1,
           Len(transmitting_queue'[n]))

C20_Own(n) == dsdv_table[n][n].seq

\* the own entry is even, and is the drone itself at distance 0
C20_Even ==
    \A n \in Nodes :
        /\ C20_Own(n) % 2 = 0
        /\ dsdv_table[n][n].next_hop = n
        /\ dsdv_table[n][n].hop_count = 0

\* C20: the sequence number of a drone's own DSDV entry is even in every
\* state; every periodic hello raises it by exactly 2, and no other step
\* changes it, so it never decreases and is never odd.
C20_OwnSequenceNumber ==
    [][/\ C20_Even'
       /\ \A n \in Nodes :
             /\ hello_sent'[n].periodic # hello_sent[n].periodic
                    => C20_Own(n)' = C20_Own(n) + 2
             /\ hello_sent'[n].periodic = hello_sent[n].periodic
                    => C20_Own(n)' = C20_Own(n)]_vars

\* a drone that has sent two hellos gets a hello of a neighbour that holds
\* an entry for it: its own entry stays at sequence number 4
C20_Witness ==
    \E n \in Nodes, m \in Nodes :
        /\ m # n
        /\ hello_sent[n].periodic = 2
        /\ C20_Own(n) = 4
        /\ hello_inflight[m].table[n] # NoEntry
        /\ hello_inflight[m].table[n].seq = 2
        /\ n \notin hello_inflight[m].to
        /\ dsdv_table[n][m] # NoEntry


\* drone n has put a triggered hello on its way in this step
C21_Triggered(n) == hello_sent'[n].triggered # hello_sent[n].triggered

\* C21: whenever the purge of a DSDV drone removes an entry, the update it
\* broadcasts in that instant carries, as the drone's own entry, the previous
\* own sequence number plus 2, and the drone's table holds that number too.
C21_TriggeredUpdateBumped ==
    [][\A n \in Nodes :
          C21_Triggered(n) =>
              /\ hello_inflight'[n].to = Neighbours(n)
              /\ hello_inflight'[n].table[n].seq = C20_Own(n) + 2
              /\ C20_Own(n)' = C20_Own(n) + 2]_vars


\* drone n takes the head of its transmit queue and asks for the next hop
C22_Selects(n) == Len(transmitting_queue'[n]) < Len(transmitting_queue[n])

\* the entries of drone n that are not older than the entry lifetime
C22_Remaining(n) ==
    {neighbor_table[n][i] : i \in {j \in 1..Len(neighbor_table[n]) :
        now - neighbor_table[n][j].updated <= entry_life_time}}

C22_Distance(position) == euclidean_distance_3d_sq(position, coords[GDestination])

\* C22: Greedy next_hop_selection purges the neighbours whose entry is older
\* than the entry lifetime and keeps the others; if a remaining neighbour's
\* advertised position is strictly closer to the destination than the drone
\* itself, the packet goes to the MAC with next_hop_id set to a remaining
\* neighbour of minimum distance; otherwise there is no route, the packet
\* goes to the waiting list and its next_hop_id is unchanged.
C22_ClosestNeighbour ==
    [][\A n \in GNodes :
          C22_Selects(n) =>
              LET packet == Head(transmitting_queue[n])
                  closer == {e \in C22_Remaining(n) :
                                C22_Distance(e.position) < C22_Distance(coords[n])}
              IN  /\ {neighbor_table'[n][i] : i \in 1..Len(neighbor_table'[n])}
                         = C22_Remaining(n)
                  /\ Len(neighbor_table'[n]) = Cardinality(C22_Remaining(n))
                  /\ IF closer # {}
                     THEN /\ in_mac'[n].stage = "tx"
                          /\ in_mac'[n].copy.id = packet.id
                          /\ in_mac'[n].copy.path = packet.path
                          /\ \E e \in closer :
                                /\ in_mac'[n].copy.next_hop_id = e.id
                                /\ \A f \in C22_Remaining(n) :
                                      C22_Distance(e.position) <= C22_Distance(f.position)
                          /\ waiting_list'[n] = waiting_list[n]
                     ELSE /\ waiting_list'[n] = Append(waiting_list[n], packet)
                          /\ in_mac'[n] = in_mac[n]]_vars

\* at time 2 the source has chosen its next hop: the entry of the one
\* neighbour, two sweeps old, is purged; the entry of the other, one sweep
\* old, is kept and chosen, and that neighbour has moved away from the
\* position it advertised
C22_Witness ==
    /\ now = 2
    /\ moved
    /\ hello_sent[1].periodic = 1 /\ hello_sent[2].periodic = 1
    /\ InRange(coords, GSource, 2)
    /\ in_mac[GSource].stage = "tx"
    /\ in_mac[GSource].copy.next_hop_id = 1
    /\ Len(neighbor_table[GSource]) = 1
    /\ neighbor_table[GSource][1].updated = 1
    /\ neighbor_table[GSource][1].position # coords[1]


C23_InSeq(q) == {q[i] : i \in 1..Len(q)}

\* every copy of the packet, wherever it is or has ended
C23_Copies ==
    UNION {C23_InSeq(transmitting_queue[n]) \cup C23_InSeq(waiting_list[n])
               \cup (IF in_mac[n].stage = "tx" THEN {in_mac[n].copy} ELSE {})
           : n \in GNodes}
        \cup datapacket_arrived \cup expired \cup {d[2] : d \in dropped}

\* every hop of the path has strictly reduced the distance to the destination
C23_Decreasing(path) ==
    \A i \in 1..(Len(path) - 1) :
        C22_Distance(coords[path[i + 1]]) < C22_Distance(coords[path[i]])

C23_NoLoop(path) ==
    \A i, j \in 1..Len(path) : i # j => path[i] # path[j]

\* no neighbour in the table of drone n is strictly closer to the destination
C23_NoCloser(n) ==
    \A i \in 1..Len(neighbor_table[n]) :
        C22_Distance(neighbor_table[n][i].position) >= C22_Distance(coords[n])

C23_Past(copy) == now' > creation_time[copy.id] + Deadline

\* C23: with static drones under greedy forwarding a packet is only ever
\* sent to a drone strictly closer to the destination, so the path of every
\* copy is strictly decreasing in distance and holds no drone twice; a copy
\* at a drone that has no strictly closer neighbour is not handed to the MAC
\* but enters the waiting list, a sweep of such a drone re-queues nothing,
\* copies leave a waiting list only re-queued before or discarded after
\* their deadline, and a sweep discards the copy at the head of the list
\* once its deadline has passed.
C23_NoRouteLoop ==
    [][/\ \A c \in C23_Copies' : C23_Decreasing(c.path) /\ C23_NoLoop(c.path)
       /\ \A n \in GNodes :
             /\ in_mac'[n].stage = "tx" =>
                    C22_Distance(coords[in_mac'[n].copy.next_hop_id])
                        < C22_Distance(coords[n])
             /\ C22_Selects(n) /\ C23_NoCloser(n) =>
                    /\ waiting_list'[n] = Append(waiting_list[n], Head(transmitting_queue[n]))
                    /\ in_mac'[n] = in_mac[n]
             /\ now' # now =>
                    /\ C23_NoCloser(n) => transmitting_queue'[n] = transmitting_queue[n]
                    /\ \A c \in C23_InSeq(waiting_list[n]) \ C23_InSeq(waiting_list'[n]) :
                          IF C23_Past(c)
                          THEN c \in expired'
                          ELSE c \in C23_InSeq(transmitting_queue'[n])
                    /\ \A i \in (Len(transmitting_queue[n]) + 1)..Len(transmitting_queue'[n]) :
                          ~C23_Past(transmitting_queue'[n][i])
                    /\ \A c \in expired' \ expired : C23_Past(c)
                    /\ waiting_list[n] # <<>> /\ C23_Past(Head(waiting_list[n])) =>
                          /\ Head(waiting_list[n]) \in expired'
                          /\ Len(waiting_list'[n]) < Len(waiting_list[n])
             /\ now' = now => expired' = expired]_vars

\* the packet has made one hop to a closer drone, found no closer neighbour
\* there, waited, and was discarded after its deadline; it was never
\* delivered
C23_Witness ==
    /\ \E c \in expired : c.path = <<GSource, 1>>
    /\ datapacket_arrived = {}
    /\ \A n \in GNodes : waiting_list[n] = <<>> /\ transmitting_queue[n] = <<>>


\* the least predicted lifetime on the path from the source over the relay
\* to the destination
C24_MinimumLifetime(relay) ==
    IF link_lifetime[{OSource, relay}] < link_lifetime[{relay, ODestination}]
    THEN link_lifetime[{OSource, relay}]
    ELSE link_lifetime[{relay, ODestination}]

\* C24: when the two paths of equal cost from the source to the destination
\* differ in their predicted link lifetimes, the path that OPAR attaches to
\* the packet is the one whose minimum link lifetime is larger.
C24_LargerMinimumLifetimeSelected ==
    routing_path # <<>> =>
        \A a, b \in {1, 2} :
            C24_MinimumLifetime(a) > C24_MinimumLifetime(b) =>
                routing_path = <<a, ODestination>>


\* the number of neighbours a node has in the tree get_mlst returned
C25_TreeNeighbours(node) == Cardinality(find_neighbor(mlst.adjList, node))

\* C25: for every connected graph with at least 2 nodes (ids from 0) and
\* every root, in the tree get_mlst returns every node reported as a leaf
\* has exactly 1 tree neighbour, every other node but the root has at least
\* 2 tree neighbours, and the root has a child and is not reported as a leaf.
C25_LeafAndInternalDegrees ==
    mlst # <<>> =>
        /\ \A node \in leaves : C25_TreeNeighbours(node) = 1
        /\ \A node \in get_nodes(adjList) \ (leaves \cup {mlst.root}) :
              C25_TreeNeighbours(node) >= 2
        /\ C25_TreeNeighbours(mlst.root) >= 1
        /\ mlst.root \notin leaves


\* the MLST that is built for the arrival path: on the 2-hop subgraph of
\* the local graph g around the last node of the path, rooted at its first
C26_Mlst(g, path) ==
    get_mlst(get_subgraph_within_hops(g, path[Len(path)], 2), path[1]).mlstree

\* the path starts at the root of the tree and each of its steps is an edge
C26_PathFromRoot(tree, path) ==
    /\ path[1] = tree.root
    /\ \A i \in 1..(Len(path) - 1) : {path[i], path[i + 1]} \in tree.adjList

\* the node is the root or has two or more neighbours in the tree
C26_NotALeaf(tree, node) ==
    node = tree.root \/ Cardinality({e \in tree.adjList : node \in e}) >= 2

C26_Included(g, my_id, paths) ==
    \E i \in 1..Len(paths) :
        /\ paths[i][1] # my_id
        /\ C26_PathFromRoot(C26_Mlst(g, paths[i]), Append(paths[i], my_id))
        /\ C26_NotALeaf(C26_Mlst(g, paths[i]), my_id)

\* C26: in MLST-prune mode a buffered item is in the outgoing data packet
\* if and only if it has an arrival path p that does not start at the drone
\* itself, such that p + [self] is a path from the root of the MLST built
\* for p and self is not a leaf of that MLST; an item whose every path
\* starts at the drone itself is not re-broadcast.
C26_InclusionRule ==
    [][\A my_id \in DOMAIN drone_path :
          data_packet = <<>> /\ data_packet' # <<>> =>
              \A key \in DOMAIN drone_path[my_id] :
                  /\ (key \in {p.key : p \in data_packet'.drone_packets})
                        <=> C26_Included(local_graph'[my_id], my_id,
                                         drone_path[my_id][key])
                  /\ (\A i \in 1..Len(drone_path[my_id][key]) :
                          drone_path[my_id][key][i][1] = my_id)
                        => data_packet'.drone_packets = {}]_vars

\* an item has been put into the data packet on its second arrival path,
\* after the MLST of its first path had suppressed it
C26_Witness ==
    /\ data_packet # <<>>
    /\ data_packet.drone_packets # {}
    /\ Cardinality(mlst_calls) = 2

\* C27: for every candidate item with the arrival path p, the node around
\* which check_add_drone_packets extracts the 2-hop subgraph and the root of
\* the MLST it builds are the same node, the first node of p, also when p
\* has more than one node.
C27_CentreIsRoot ==
    \A call \in mlst_calls :
        call.centre = call.path[1] /\ call.root = call.path[1]


\* drone d has just broadcast, and so has just run update_local_graph
C28_JustUpdated(d) == [drone |-> d, time |-> now] \in broadcasts

\* C28: every edge of a drone's local graph, between the drone and a
\* neighbour or between a neighbour and a neighbour of that neighbour, is
\* removed by the next update_local_graph once no reception has refreshed it
\* within the stale window of 2 TDMA frames.
C28_StaleEdgesRemoved ==
    \A d \in DOMAIN local_graph :
        C28_JustUpdated(d) =>
            \A e \in local_graph[d] :
                now - edge_refreshed[d][e] <= 2 * frame_size


\* the broadcast is in the first half of the slot of its drone
C29_InOwnSlot(b) ==
    LET offset == b.time % frame_size
    IN  /\ b.drone * BROADCAST_SLOT <= offset
        /\ 2 * offset <= 2 * b.drone * BROADCAST_SLOT + BROADCAST_SLOT

\* the number of the frame the broadcast is in
C29_Frame(b) == b.time \div frame_size

\* C29: every broadcast of drone i happens at a time t with
\* t mod (slot * N) in [i * slot, i * slot + slot / 2]; consecutive
\* broadcasts of one drone are exactly one frame slot * N apart; no two
\* distinct drones broadcast at the same time and each drone broadcasts
\* exactly once per frame.
C29_TdmaSchedule ==
    /\ \A b \in broadcasts : C29_InOwnSlot(b)
    /\ \A b \in broadcasts :
          \/ C29_Frame(b) = 0
          \/ [drone |-> b.drone, time |-> b.time - frame_size] \in broadcasts
    /\ \A b1, b2 \in broadcasts :
          /\ b1.drone # b2.drone => b1.time # b2.time
          /\ b1.drone = b2.drone /\ C29_Frame(b1) = C29_Frame(b2) => b1 = b2
    /\ \A d \in DOMAIN broadcast_time :
          \A f \in 0..(C29_Frame([time |-> now]) - 1) :
              \E b \in broadcasts : b.drone = d /\ C29_Frame(b) = f

\* the last drone has broadcast in three frames, each time at the end of
\* the first half of its slot, and the first drone at the start of its slot
C29_Witness ==
    /\ hello_count[2] >= 3
    /\ [drone |-> 2, time |-> 2 * frame_size + 2 * BROADCAST_SLOT + max_delay]
           \in broadcasts
    /\ [drone |-> 0, time |-> 2 * frame_size] \in broadcasts


\* the end drones and the middle drones of the chain
C30_Ends == {0, 4}
C30_Middle == ChainDrones \ C30_Ends

\* the data packets of the first round: drone o originates the packet o + 1
C30_Packets == {<<o, o + 1>> : o \in ChainDrones}

\* every broadcast of the run has been made
C30_Done ==
    \A d \in DOMAIN broadcast_time : broadcast_time[d] >= ChainFrames * frame_size

\* how often drone d has buffered the item
C30_Receptions(d, key) ==
    IF key \in DOMAIN item_received[d] THEN item_received[d][key] ELSE 0

\* the middle drones are internal nodes of every MLST they build and
\* re-broadcast every packet that is not their own; the end drones are
\* leaves of every MLST they build and re-broadcast nothing
C30_MiddleRelaysEndsSuppress ==
    /\ data_packet # <<>> =>
          \A call \in mlst_calls :
              call.leaf <=> data_packet.src_drone \in C30_Ends
    /\ \A r \in item_rebroadcast : r[1] \in C30_Middle
    /\ C30_Done =>
          \A key \in C30_Packets : \A d \in C30_Middle \ {key[1]} :
              <<d, key>> \in item_rebroadcast

\* the drone next to d on the side away from the origin of the item
C30_Downstream(d, key) == IF d > key[1] THEN d + 1 ELSE d - 1

\* C30 (as stated): in the static chain of 5 drones in MLST-prune mode the
\* middle drones are internal MLST nodes and re-broadcast every packet, the
\* end drones are leaves and never re-broadcast, and every drone receives
\* every packet exactly once.
C30_ExactlyOnce ==
    /\ C30_MiddleRelaysEndsSuppress
    /\ C30_Done =>
          \A key \in C30_Packets : \A d \in ChainDrones \ {key[1]} :
              C30_Receptions(d, key) = 1

\* C30 (amended): the middle drones are internal MLST nodes and
\* re-broadcast every packet, the end drones are leaves and never
\* re-broadcast, and every drone receives every packet and has it counted
\* as arrived; a drone receives it once from the drone towards the origin
\* and, when the next drone away from the origin is a middle drone, a
\* second time from the re-broadcast of that drone.
C30_OnceOrEcho ==
    /\ C30_MiddleRelaysEndsSuppress
    /\ C30_Done =>
          \A key \in C30_Packets : \A d \in ChainDrones \ {key[1]} :
              /\ key[2] \in b_datapacket_arrived[d]
              /\ C30_Receptions(d, key) =
                     IF C30_Downstream(d, key) \in C30_Middle THEN 2 ELSE 1

\* the run is over: the packet of drone 0 has gone through the drones 1, 2
\* and 3 to drone 4, the packet of drone 4 has reached drone 0, and drone 1
\* has heard the packet of drone 0 again from drone 2
C30_Witness ==
    /\ C30_Done
    /\ \A d \in C30_Middle : <<d, <<0, 1>>>> \in item_rebroadcast
    /\ 1 \in b_datapacket_arrived[4]
    /\ 5 \in b_datapacket_arrived[0]
    /\ C30_Receptions(1, <<0, 1>>) = 2

\* what a run shows: the start positions and the values drawn
C31_Observed(r) == <<run[r].start_position, run[r].draws>>

C31_SeededDrawsAgree ==
    run # <<>> =>
        \A k \in 1..Len(run[1].draws) :
            run[1].draws[k][1] # "gossip" => run[1].draws[k] = run[2].draws[k]

\* a position tick of the mobility process has been made
C32_Ticked == next_position # <<>>

\* C32: after every position tick of the Gauss-Markov mobility process each
\* coordinate of the drone lies in [min + b, max - b] of its axis, and on each
\* axis whose un-clamped next position lies outside that interval the
\* velocity component has changed sign, while the components of the other
\* axes are as the tick computed them.
C32_ClampAndRebound ==
    C32_Ticked =>
        \A a \in Axes :
            /\ coords[0][a] >= MapMin + BufferZone[a]
            /\ coords[0][a] <= MapMax - BufferZone[a]
            /\ velocity[a] =
                  (IF \/ next_position[a] < MapMin + BufferZone[a]
                      \/ next_position[a] > MapMax - BufferZone[a]
                   THEN 0 - next_velocity[a] ELSE next_velocity[a])

\* a tick whose un-clamped position is above the interval on the first axis
\* and inside it on the others, with every component of the velocity moving
C32_Witness ==
    /\ C32_Ticked
    /\ next_position[1] > MapMax - BufferZone[1]
    /\ next_position[2] = coords[0][2]
    /\ next_position[3] = coords[0][3]
    /\ next_velocity[1] > 0
    /\ velocity[1] < 0
    /\ velocity[2] # 0
    /\ velocity[3] # 0

\* the events of kind k of drone d in the queue q
C33_Events(q, k, d) == {i \in 1..Len(q) : q[i].k = k /\ q[i].d = d}

\* a step in which the mac_send of a drone starts
C33_Starts == Fire("mac_send")

\* a step in which wait_ack finds the ACK timeout expired with attempts left
C33_TimesOut ==
    /\ Fire("ack_timeout")
    /\ number_retransmission_attempt[Head(evq).d] < MAX_RETRANSMISSION_ATTEMPT

\* C33: pure-ALOHA mac_send issues the PHY transmission 0.01 us after it
\* starts whatever the state of the channel: it draws no backoff, never waits
\* for an idle channel and is never interrupted, and the pending 0.01 us
\* delay is never taken away.  After an ACK timeout with attempts remaining
\* the packet is handed back for retransmission only after a further wait of
\* r * 500 us with integer r in [0, 2^attempt].
C33_AlohaSendsAtOnce ==
    [][mac_protocol = "PureAloha" =>
        /\ C33_Starts =>
              \E i \in C33_Events(evq', "aloha_delay", Head(evq).d) :
                  evq'[i].t = now' + AlohaDelay
        /\ \A d \in Drones :
              /\ tx_count'[d] # tx_count[d] =>
                    /\ Fire("aloha_delay") /\ Head(evq).d = d
                    /\ now' = Head(evq).t
                    /\ tx_count'[d] = tx_count[d] + 1
              /\ (mac_pc[d] = "aloha_delay" /\ mac_pc'[d] = "aloha_delay") =>
                    \E i \in C33_Events(evq', "aloha_delay", d) :
                        \E j \in C33_Events(evq, "aloha_delay", d) :
                            evq'[i].t = evq[j].t
              /\ mac_pc'[d] \notin {"wait_idle", "countdown", "request",
                                    "airtime", "hold"}
              /\ C33_Events(evq', "interrupt", d) = {}
        /\ backoff' = backoff
        /\ to_wait' = to_wait
        /\ C33_TimesOut =>
              /\ \E i \in C33_Events(evq', "random_wait", Head(evq).d) :
                    \E r \in 0..(2 ^ number_retransmission_attempt[Head(evq).d]) :
                        evq'[i].t = now' + r * AlohaWaitUnit * US
              /\ C33_Events(evq', "packet_coming", Head(evq).d)
                     = C33_Events(evq, "packet_coming", Head(evq).d)
        /\ \A d \in Drones :
              (/\ number_retransmission_attempt[d] >= 1
               /\ Cardinality(C33_Events(evq', "packet_coming", d))
                     > Cardinality(C33_Events(evq, "packet_coming", d))) =>
                 /\ Fire("random_wait")
                 /\ Head(evq).d = d
                 /\ now' = Head(evq).t
    ]_vars

\* under pure ALOHA a drone sends its packet a second time while the other
\* drone is on the air as well
C33_Witness ==
    /\ mac_protocol = "PureAloha"
    /\ \E d \in Drones :
          /\ tx_count[d] = 2
          /\ mac_pc[d] = "aloha_airtime"
          /\ mac_pc[Peer(d)] = "aloha_airtime"

\* C34: a retransmission by the previous hop carries the same routing path
\* and next hop as the first transmission of that packet by that hop: what
\* the relay does to its copy does not reach the packet the sender holds.
C34_RetransmissionCarriesSamePath ==
    \A t1 \in transmissions, t2 \in transmissions :
        (t1.from = t2.from /\ t1.obj = t2.obj)
            => (t1.routing_path = t2.routing_path /\ t1.next_hop_id = t2.next_hop_id)

\* the node that follows r on the path p, None when there is none
C36_Follower(p, r) ==
    IF \E i \in 1..(Len(p) - 1) : p[i] = r
    THEN p[(CHOOSE i \in 1..(Len(p) - 1) : p[i] = r) + 1]
    ELSE None

\* C36: each time a relay r selects the packet for sending,
\* next_hop_selection sets next_hop_id to the node that follows r on the
\* path the source computed.
C36_RelayFollowsSourcePath ==
    \A src \in selections, s \in selections :
        (src.at = OSource /\ s.at # OSource /\ s.has_route)
            => s.next_hop_id = C36_Follower(src.before, s.at)

\* C36, the single call: next_hop_selection at a relay takes the head off an
\* attached path of more than one element and makes the new head the next
\* hop; it reports no route exactly when the path has at most one element.
C36_PopsAttachedPath ==
    \A s \in selections :
        s.at # OSource =>
            /\ s.has_route = (Len(s.before) > 1)
            /\ s.has_route => (s.after = Tail(s.before) /\ s.next_hop_id = s.before[2])
            /\ ~s.has_route => s.after = s.before

\* the pairs <<a, b>> with b in the list of a
C35_Entries(a) ==
    UNION {{<<x, a.lists[x][i]>> : i \in 1..Len(a.lists[x])} : x \in ListNodes}

\* C35: after any sequence of add_edge, remove_edge, sort,
\* get_subgraph_within_hops and get_mlst the adjacency is undirected (b is in
\* the list of a exactly when a is in the list of b) and simple (no node is
\* in its own list, no node is twice in a list), and get_subgraph_within_hops
\* and get_mlst leave the edges of the graph they are called on as they were.
C35_UndirectedSimple ==
    /\ [](\A x \in ListNodes :
            /\ \A i \in 1..Len(adj_lists.lists[x]) :
                  /\ adj_lists.lists[x][i] # x
                  /\ Has(adj_lists.lists[adj_lists.lists[x][i]], x)
                  /\ \A j \in 1..Len(adj_lists.lists[x]) :
                        adj_lists.lists[x][i] = adj_lists.lists[x][j] => i = j
            /\ adj_lists.lists[x] # <<>> => x \in adj_lists.keys)
    /\ [][graph_call' \in {"get_subgraph_within_hops", "get_mlst"}
            => C35_Entries(adj_lists') = C35_Entries(adj_lists)]_vars

\* get_mlst has sorted the lists of a graph of three edges: a neighbour of
\* higher degree stands before one of lower number
C35_Witness ==
    /\ graph_call = "get_mlst"
    /\ Cardinality(C35_Entries(adj_lists)) = 6
    /\ \E x \in ListNodes : adj_lists.lists[x] = <<3, 1>>

\* the number of samples drone d has appended to metrics.mac_delay
C37_Samples(d) == Cardinality({i \in 1..Len(mac_delay) : mac_delay[i].d = d})

\* drone d has handled an ACK for its packet: the ACK branch of
\* packet_reception appended a sample (the only other sample is that of the
\* drop in wait_ack)
C37_AckHandled(d) ==
    \/ C37_Samples(d) >= 2
    \/ C37_Samples(d) = 1 /\ d \notin dropped

\* C37: once drone d has handled the ACK for its packet, no mac_send for the
\* packet at d reaches a PHY transmission any more.
C37_NoTransmissionAfterAck ==
    [][\A d \in Drones : C37_AckHandled(d) => tx_count'[d] = tx_count[d]]_vars

\* the nodes reached from the nodes seen over the edges of g
RECURSIVE C38_Reach(_, _)
C38_Reach(g, seen) ==
    LET more == seen \cup UNION {find_neighbor(g, v) : v \in seen}
    IN  IF more = seen THEN seen ELSE C38_Reach(g, more)

\* C38: for every connected graph and every root the tree get_mlst returns
\* is a spanning tree: it holds every node of the graph, each of its edges
\* is an edge of the graph, every node is reached from the root over tree
\* edges, and it has no cycle (one edge less than nodes).
C38_SpanningTree ==
    mlst # <<>> =>
        /\ get_nodes(mlst.adjList) = get_nodes(adjList)
        /\ mlst.adjList \subseteq adjList
        /\ C38_Reach(mlst.adjList, {mlst.root}) = get_nodes(adjList)
        /\ Cardinality(mlst.adjList) = Cardinality(get_nodes(adjList)) - 1

\* C38 without the first two clauses: what the tree holds is connected from
\* the root, has no cycle and uses edges of the graph only.
C38_TreeOfGraphEdges ==
    mlst # <<>> =>
        /\ mlst.adjList \subseteq adjList
        /\ C38_Reach(mlst.adjList, {mlst.root}) = get_nodes(mlst.adjList) \cup {mlst.root}
        /\ Cardinality(mlst.adjList) = Cardinality(get_nodes(mlst.adjList) \cup {mlst.root}) - 1

\* the data packet drone i broadcasts in this step carries an item that an
\* earlier data packet of drone i carried already
C39_IncludesAgain ==
    /\ data_packet' # data_packet
    /\ \E p \in data_packet'.drone_packets :
          <<data_packet'.src_drone, p.key>> \in item_rebroadcast

\* C39: in every broadcast mode and every static connected topology each
\* drone includes a given data item in at most one of its broadcasts, so an
\* item is re-broadcast finitely often.
C39_IncludedAtMostOnce == [][~C39_IncludesAgain]_vars

\* C39 for MLST pruning alone
C39_PruneIncludesOnce == [][data_broadcast_type = 2 => ~C39_IncludesAgain]_vars

\* C39 for gossip alone
C39_GossipIncludesOnce == [][data_broadcast_type = 1 => ~C39_IncludesAgain]_vars

\* a link of the path that is in the cost matrix now and not after the step
C40_RemovesLinkOf(path) ==
    \E i \in 1..(Len(path) - 1) :
        /\ opar_cost[path[i]][path[i + 1]] # Infinity
        /\ opar_cost'[path[i]][path[i + 1]] = Infinity

\* C40: next_hop_selection at the source makes finitely many rounds of its
\* while loop, no more than one per link in range and one, and each round
\* removes at least one link of the previous path from the cost matrix or
\* finds no path, which ends the loop.
C40_LoopTerminates ==
    /\ [](loop_rounds <= Cardinality(in_range) + 1)
    /\ [][loop_pc = "loop" =>
            \/ C40_RemovesLinkOf(loop_path)
            \/ loop_path' = <<>> /\ loop_pc' = "attach"]_vars

\* the second round of the loop has found another path after links were
\* removed
C40_Witness ==
    /\ loop_pc = "loop"
    /\ loop_rounds = 2
    /\ Len(loop_path) >= 3
    /\ opar_cost # calculate_cost_matrix(in_range)

\* the steps together give what SourceSelection computes at once
C40_SameAsSourceSelection ==
    loop_pc = "done" =>
        LET Same(found) ==
                /\ opar_cost = found.cost
                /\ best_obj = found.best_obj
                /\ routing_path = Tail(found.best_path)
        IN  Same(SourceSelection(in_range, link_lifetime))

====
